---- MODULE Spec2Model ----
(***************************************************************************)
(* Model of the rustical client/server message protocol (homework-16):     *)
(* the server's connection loop (stream_handler.rs), the command           *)
(* dispatcher (command.rs), the error taxonomy (server_error.rs), the      *)
(* storage pipeline (file.rs) and the accept loop (main.rs).               *)
(*                                                                         *)
(* Strings are TLA+ strings; Rust's format!() is string concatenation.     *)
(* Option<T> is a record [tag |-> "None"] or [tag |-> "Some", val |-> v].  *)
(* Result<T, E> is [tag |-> "Ok", val |-> v] or [tag |-> "Err", err |-> e];*)
(* a call that panics yields [tag |-> "Panic"].                            *)
(***************************************************************************)
EXTENDS Integers, Sequences, FiniteSets, TLC

(***************************************************************************)
(* Bounds of the model.                                                    *)
(***************************************************************************)
\* frames one client writes on its connection
MaxFrames == 2
\* iterations of the connection loop followed per connection
MaxIter == 3
\* seconds the wall clock advances
MaxClock == 1

(***************************************************************************)
(* Option / Result helpers.                                                *)
(***************************************************************************)
None == [tag |-> "None"]

Some(v) == [tag |-> "Some", val |-> v]

Ok(v) == [tag |-> "Ok", val |-> v]

Err(e) == [tag |-> "Err", err |-> e]

Panic == [tag |-> "Panic"]

\* `let x = v; F(x)`: v is computed once and F is applied to its value
Let(v, F(_)) == CHOOSE r \in {F(x) : x \in {v}} : TRUE

(***************************************************************************)
(* String helpers (std::str / std::path behaviour used by the code).       *)
(***************************************************************************)
CharAt(s, i) == SubSeq(s, i, i)

\* Vec<String>::join(sep)
Join(parts, sep) ==
    Let(SubSeq(parts, 1, Len(parts)), LAMBDA ps :
      LET RECURSIVE From(_)
          From(i) == IF i > Len(ps) THEN ""
                     ELSE IF i = Len(ps) THEN ps[i]
                     ELSE ps[i] \o sep \o From(i + 1)
      IN  From(1))

RECURSIVE LastIndexOf(_, _, _)
\* greatest i <= from with s[i] = ch, or 0
LastIndexOf(s, ch, from) ==
    IF from = 0 THEN 0
    ELSE IF CharAt(s, from) = ch THEN from
    ELSE LastIndexOf(s, ch, from - 1)

\* Regex::replace_all for a character class: every char in cls becomes rep
ReplaceChars(s, cls, rep) ==
    Join([i \in 1..Len(s) |-> IF CharAt(s, i) \in cls THEN rep ELSE CharAt(s, i)], "")

(***************************************************************************)
(* Message model (common/src/message.rs).                                  *)
(***************************************************************************)
\* ClientServerMessage { msg_id, payload: Option<Payload> }
ClientServerMessage(msg_id, payload) == [msg_id |-> msg_id, payload |-> payload]

Help == [type |-> "Help"]

Info(info, hostname) == [type |-> "Info", info |-> info, hostname |-> hostname]

Msg(text) == [type |-> "Msg", text |-> text]

File(filename, content) == [type |-> "File", filename |-> filename, content |-> content]

Image(filename, content) == [type |-> "Image", filename |-> filename, content |-> content]

Quit == [type |-> "Quit"]

\* #[derive(EnumVariantName)] on Payload
variant_name(payload) == payload.type

\* ServerClientMessage::Ok / Error / Quit
ResponseOk(msg_id_ref, text) ==
    [type |-> "Ok", msg_id_ref |-> msg_id_ref, text |-> text]

ResponseError(msg_id_ref, code, text) ==
    [type |-> "Error", msg_id_ref |-> msg_id_ref, code |-> code, text |-> text]

ResponseQuit(msg_id_ref, text) ==
    [type |-> "Quit", msg_id_ref |-> msg_id_ref, text |-> text]

\* fmt::Debug of a payload, as used by Display of ClientServerMessage
DebugPayload(p) ==
    CASE p.type = "Info" ->
           "Info { info: \"" \o p.info \o "\", hostname: \"" \o p.hostname \o "\" }"
      [] p.type = "Msg" -> "Msg { text: \"" \o p.text \o "\" }"
      [] p.type \in {"File", "Image"} ->
           p.type \o " { filename: \"" \o p.filename \o "\", content: \""
           \o p.content \o "\" }"
      [] OTHER -> p.type

DisplayMessage(message) ==
    "ClientServerMessage { msg_id: \"" \o message.msg_id \o "\", payload: "
    \o (IF message.payload = None THEN "None"
        ELSE "Some(" \o DebugPayload(message.payload.val) \o ")")
    \o " }"

(***************************************************************************)
(* Error taxonomy (server/src/server_error.rs, common/src/util.rs).        *)
(*                                                                         *)
(* A boxed `dyn Error` is the chain of its causes, outermost first; each   *)
(* link keeps its concrete type (for downcast_ref), its Display text and,  *)
(* for std::io::Error, its ErrorKind.                                      *)
(***************************************************************************)
DynError(type, display, kind) == [type |-> type, display |-> display, kind |-> kind]

\* Box<dyn Error> from a String / &str (`.into()`)
StringError(text) == << DynError("String", text, "") >>

\* a boxed std::io::Error of the given kind
IoError(kind) == << DynError("io::Error", "os error: " \o kind, kind) >>

\* enum ServerError: variant(message, #[source] Option<Box<dyn Error>>);
\* source is the chain of the boxed cause, << >> for None
ServerError(variant, message, source) ==
    [variant |-> variant, message |-> message, source |-> source]

\* #[error("...: {0}")] prefixes
ErrorPrefix ==
    [ InvalidEncoding         |-> "Invalid encoding",
      ImageProcessingFailed   |-> "Image processing failed",
      GeneralIssue            |-> "General issue",
      MessageProcessingFailed |-> "Message processing failed",
      MessageReceiveFailed    |-> "Message receive failed",
      ResponseSendingFailed   |-> "Response sending failed" ]

\* impl Display for ServerError (thiserror)
ErrorToString(e) == ErrorPrefix[e.variant] \o ": " \o e.message

\* #[derive(EnumVariantName)] on ServerError
error_variant_name(e) == e.variant

\* Box::new(server_error) as Box<dyn Error>: the error followed by its causes
BoxError(e) == << DynError("ServerError", ErrorToString(e), "") >> \o e.source

\* type_name_of_val on a `dyn Error` reference names the trait object
type_name_of_val(link) == "dyn core::error::Error"

\* full_name.rsplit("::").next()
simple_name_of(full_name) ==
    Let(LastIndexOf(full_name, ":", Len(full_name)), LAMBDA i :
      IF i = 0 THEN full_name ELSE SubSeq(full_name, i + 1, Len(full_name)))

\* collect_error_messages(err): "<name>: <message>" of err and of each
\* source below it, joined with ": "
collect_error_messages(chain) ==
    Join([i \in 1..Len(chain) |->
             simple_name_of(type_name_of_val(chain[i])) \o ": " \o chain[i].display],
         ": ")

\* ClientText without the chain of causes
ClientText_TopLevelOnly(e) == ErrorToString(e)

\* the text to_client_message puts into the response
ClientText(e) ==
    IF e.source # << >>
    THEN ErrorToString(e) \o ": " \o collect_error_messages(e.source)
    ELSE ErrorToString(e)

\* to_client_message answering every error under the catch-all code
to_client_message_GeneralIssue(e, msg_id_ref) ==
    LET msg_id == IF msg_id_ref = None THEN "" ELSE msg_id_ref.val
    IN  ResponseError(msg_id, "GeneralIssue", Some(ClientText(e)))

\* ServerError::to_client_message(&self, msg_id_ref: Option<String>)
to_client_message(e, msg_id_ref) ==
    LET msg_id == IF msg_id_ref = None THEN "" ELSE msg_id_ref.val
    IN  ResponseError(msg_id, error_variant_name(e), Some(ClientText(e)))

\* the line to_client_message writes with elog!
to_client_message_log(e) ==
    IF e.source # << >>
    THEN error_variant_name(e) \o ": " \o ErrorToString(e) \o ": "
         \o collect_error_messages(e.source)
    ELSE error_variant_name(e) \o ": " \o ErrorToString(e)

(***************************************************************************)
(* base64 codec (common/src/util.rs): URL_SAFE alphabet, NO_PAD.           *)
(* Bytes are sequences of 0..255.                                          *)
(***************************************************************************)
URL_SAFE == "ABCDEFGHIJKLMNOPQRSTUVWXYZabcdefghijklmnopqrstuvwxyz0123456789-_"

\* 0..63 for a symbol of the alphabet, 64 for any other character
SymbolValue(ch) ==
    IF \E i \in 1..Len(URL_SAFE) : CharAt(URL_SAFE, i) = ch
    THEN (CHOOSE i \in 1..Len(URL_SAFE) : CharAt(URL_SAFE, i) = ch) - 1
    ELSE 64

Symbol(v) == CharAt(URL_SAFE, v + 1)

\* base64_encode padding the last group with = (an engine with padding)
base64_encode_Padded(data) ==
    LET n == Len(data)
        RECURSIVE From(_)
        From(i) ==
            IF i > n THEN ""
            ELSE IF i = n THEN
                Symbol(data[i] \div 4) \o Symbol((data[i] % 4) * 16) \o "=="
            ELSE IF i + 1 = n THEN
                Symbol(data[i] \div 4)
                \o Symbol((data[i] % 4) * 16 + data[i + 1] \div 16)
                \o Symbol((data[i + 1] % 16) * 4) \o "="
            ELSE
                Symbol(data[i] \div 4)
                \o Symbol((data[i] % 4) * 16 + data[i + 1] \div 16)
                \o Symbol((data[i + 1] % 16) * 4 + data[i + 2] \div 64)
                \o Symbol(data[i + 2] % 64)
                \o From(i + 3)
    IN  From(1)

\* BASE64_ENGINE.encode(data): 3 bytes -> 4 symbols, no padding
base64_encode(data) ==
    LET n == Len(data)
        RECURSIVE From(_)
        \* the symbols for data[i..n]
        From(i) ==
            IF i > n THEN ""
            ELSE IF i = n THEN
                Symbol(data[i] \div 4) \o Symbol((data[i] % 4) * 16)
            ELSE IF i + 1 = n THEN
                Symbol(data[i] \div 4)
                \o Symbol((data[i] % 4) * 16 + data[i + 1] \div 16)
                \o Symbol((data[i + 1] % 16) * 4)
            ELSE
                Symbol(data[i] \div 4)
                \o Symbol((data[i] % 4) * 16 + data[i + 1] \div 16)
                \o Symbol((data[i + 1] % 16) * 4 + data[i + 2] \div 64)
                \o Symbol(data[i + 2] % 64)
                \o From(i + 3)
    IN  From(1)

\* DecodeSymbols accepting trailing bits that are not zero
DecodeSymbols_Lenient(v) ==
    LET n == Len(v)
        RECURSIVE From(_)
        From(i) ==
            IF i > n THEN << >>
            ELSE IF i + 1 = n THEN << v[i] * 4 + v[i + 1] \div 16 >>
            ELSE IF i + 2 = n
            THEN << v[i] * 4 + v[i + 1] \div 16,
                    (v[i + 1] % 16) * 16 + v[i + 2] \div 4 >>
            ELSE << v[i] * 4 + v[i + 1] \div 16,
                    (v[i + 1] % 16) * 16 + v[i + 2] \div 4,
                    (v[i + 2] % 4) * 64 + v[i + 3] >> \o From(i + 4)
    IN  IF n % 4 = 1 THEN Err("InvalidLength")
        ELSE Ok(From(1))

\* decode a sequence of symbol values (each 0..63): 4 symbols -> 3 bytes; a
\* lone last symbol is rejected (InvalidLength) and so are trailing bits that
\* are not zero (InvalidLastSymbol)
DecodeSymbols(v) ==
    LET n == Len(v)
        RECURSIVE From(_)
        \* the bytes for v[i..n]
        From(i) ==
            IF i > n THEN << >>
            ELSE IF i + 1 = n THEN << v[i] * 4 + v[i + 1] \div 16 >>
            ELSE IF i + 2 = n
            THEN << v[i] * 4 + v[i + 1] \div 16,
                    (v[i + 1] % 16) * 16 + v[i + 2] \div 4 >>
            ELSE << v[i] * 4 + v[i + 1] \div 16,
                    (v[i + 1] % 16) * 16 + v[i + 2] \div 4,
                    (v[i + 2] % 4) * 64 + v[i + 3] >> \o From(i + 4)
    IN  IF n % 4 = 1 THEN Err("InvalidLength")
        ELSE IF n % 4 = 2 /\ v[n] % 16 # 0 THEN Err("InvalidLastSymbol")
        ELSE IF n % 4 = 3 /\ v[n] % 4 # 0 THEN Err("InvalidLastSymbol")
        ELSE Ok(From(1))

\* BASE64_ENGINE.decode(data) -> Result<Vec<u8>, DecodeError>
base64_decode(data) ==
    Let(SubSeq([i \in 1..Len(data) |-> SymbolValue(CharAt(data, i))], 1, Len(data)),
        LAMBDA v :
          IF \E i \in 1..Len(v) : v[i] = 64 THEN Err("InvalidByte")
          ELSE DecodeSymbols(v))

(***************************************************************************)
(* The image crate, as far as file.rs uses it.  An encoded image is the    *)
(* magic number of its format followed by its pixel data; a buffer decodes *)
(* when its format is recognised and it has pixel data.                    *)
(***************************************************************************)
PngMagic == << 137, 80, 78, 71, 13, 10, 26, 10 >>

JpegMagic == << 255, 216, 255 >>

GifMagic == << 71, 73, 70, 56 >>

HasPrefix(buffer, magic) ==
    Len(buffer) >= Len(magic) /\ SubSeq(buffer, 1, Len(magic)) = magic

\* ImageReader::with_guessed_format().format()
GuessedFormat(buffer) ==
    IF HasPrefix(buffer, PngMagic) THEN Some("Png")
    ELSE IF HasPrefix(buffer, JpegMagic) THEN Some("Jpeg")
    ELSE IF HasPrefix(buffer, GifMagic) THEN Some("Gif")
    ELSE None

MagicOf(format) ==
    CASE format = "Png" -> PngMagic
      [] format = "Jpeg" -> JpegMagic
      [] format = "Gif" -> GifMagic

\* ImageReader::decode(): the pixel data, or an ImageError
DecodeImage(buffer) ==
    LET format == GuessedFormat(buffer)
    IN  IF format = None THEN Err("Unsupported")
        ELSE LET pixels == SubSeq(buffer, Len(MagicOf(format.val)) + 1, Len(buffer))
             IN  IF Len(pixels) = 0 THEN Err("Decoding") ELSE Ok(pixels)

\* DynamicImage::write_to(.., ImageFormat::Png)
EncodePng(pixels) == PngMagic \o pixels

(***************************************************************************)
(* Storage pipeline (server/src/file.rs).                                  *)
(***************************************************************************)
\* str::split(sep) for a one-character separator
Split(s, sep) ==
    LET n == Len(s)
        RECURSIVE From(_, _)
        \* the parts of s[start..n], the current part being scanned at i
        From(start, i) ==
            IF i > n THEN << SubSeq(s, start, n) >>
            ELSE IF CharAt(s, i) = sep
            THEN << SubSeq(s, start, i - 1) >> \o From(i + 1, i + 1)
            ELSE From(start, i + 1)
    IN  From(1, 1)

\* Path::components() on a Unix path: the root, then every non-empty part;
\* "." is kept only as the first component of a relative path
Components(path) ==
    Let(Split(path, "/"), LAMBDA parts :
      LET keep(k) == /\ parts[k] # ""
                     /\ (parts[k] = "." => k = 1)
          kept == SelectSeq([k \in 1..Len(parts) |-> k], keep)
      IN  (IF Len(path) > 0 /\ CharAt(path, 1) = "/" THEN << "/" >> ELSE << >>)
          \o [j \in 1..Len(kept) |-> parts[kept[j]]])

\* Path::file_name(): the last component when it is a normal one
file_name(path) ==
    Let(Components(path), LAMBDA comps :
      IF Len(comps) = 0 THEN None
      ELSE IF comps[Len(comps)] \in {"/", ".", ".."} THEN None
      ELSE Some(comps[Len(comps)]))

\* Path::new(directory).join(name) for a relative name
PathJoin(directory, name) ==
    IF Len(directory) = 0 THEN name
    ELSE IF CharAt(directory, Len(directory)) = "/" THEN directory \o name
    ELSE directory \o "/" \o name

Pad2(n) == IF n < 10 THEN "0" \o ToString(n) ELSE ToString(n)

\* Utc::now().to_rfc3339_opts(SecondsFormat::Secs, true), `now` seconds
\* after 2024-11-04T10:30:00Z
to_rfc3339(now) ==
    "2024-11-04T10:" \o Pad2(30 + now \div 60) \o ":" \o Pad2(now % 60) \o "Z"

\* get_target_file joining the file name as the client gave it
get_target_file_WholeName(filename, directory, now) ==
    Let(file_name(filename), LAMBDA name :
      IF name = None THEN Panic
      ELSE LET timestamp == ReplaceChars(to_rfc3339(now), {":", "+"}, "-")
               new_filename == timestamp \o "_" \o filename
           IN  Ok(PathJoin(directory, new_filename)))

\* get_target_file(filename, directory); file_name().unwrap() panics on None
get_target_file(filename, directory, now) ==
    Let(file_name(filename), LAMBDA name :
      IF name = None THEN Panic
      ELSE LET timestamp == ReplaceChars(to_rfc3339(now), {":", "+"}, "-")
               new_filename == timestamp \o "_" \o name.val
           IN  Ok(PathJoin(directory, new_filename)))

\* target_file.rsplit_once('.') -> "<base>.png", or "<target_file>.png"
PngTargetFile(target_file) ==
    Let(LastIndexOf(target_file, ".", Len(target_file)), LAMBDA i :
      IF i = 0 THEN target_file \o ".png"
      ELSE SubSeq(target_file, 1, i - 1) \o ".png")

\* post_process_image re-encoding a PNG like every other format
post_process_image_AlwaysConvert(buffer, target_file) ==
    Let(DecodeImage(buffer), LAMBDA img :
      Let(GuessedFormat(buffer), LAMBDA format :
        IF img.tag = "Err"
        THEN Err(BoxError(ServerError("ImageProcessingFailed", "Failed to decode image",
                                      << DynError("ImageError", img.err, "") >>)))
        ELSE IF format = None
        THEN Err(BoxError(ServerError("ImageProcessingFailed", "Unknown image format",
                                      << >>)))
        ELSE Ok(<< EncodePng(img.val), PngTargetFile(target_file), TRUE >>)))

\* post_process_image(buffer, target_file)
\*   -> Result<(Vec<u8>, String, bool), Box<dyn Error>>
post_process_image(buffer, target_file) ==
    Let(DecodeImage(buffer), LAMBDA img :
      Let(GuessedFormat(buffer), LAMBDA format :
        IF img.tag = "Err"
        THEN Err(BoxError(ServerError("ImageProcessingFailed", "Failed to decode image",
                                      << DynError("ImageError", img.err, "") >>)))
        ELSE IF format = None
        THEN Err(BoxError(ServerError("ImageProcessingFailed", "Unknown image format",
                                      << >>)))
        ELSE IF format = Some("Png")
        THEN Ok(<< buffer, target_file, FALSE >>)
        ELSE Ok(<< EncodePng(img.val), PngTargetFile(target_file), TRUE >>)))

\* what File::create can do
FsOutcomes == {"ok", "create_failed"}

\* File::create(path)?.write_all(bytes)? under the given outcome: the error,
\* if any, and the file left on disk, if any
WriteFile(path, bytes, fs) ==
    IF fs = "ok"
    THEN [err |-> << >>, written |-> Some([path |-> path, bytes |-> bytes])]
    ELSE [err |-> IoError("PermissionDenied"), written |-> None]

\* the text store_file returns
StoredMessage(converted, received, stored, path) ==
    IF converted
    THEN "Received " \o ToString(received) \o " bytes and converted to "
         \o ToString(stored) \o " bytes in " \o path
    ELSE "Stored " \o ToString(received) \o " bytes in " \o path

\* store_file creating the target file before the post-processor has run
store_file_CreateFirst(filename, directory, content, post_processor, now, fs) ==
    Let(base64_decode(content), LAMBDA buffer :
      IF buffer.tag = "Err"
      THEN [result |-> Err(BoxError(ServerError("InvalidEncoding", "Decoding failed",
                             << DynError("DecodeError", buffer.err, "") >>))),
            written |-> None]
      ELSE Let(get_target_file(filename, directory, now), LAMBDA target_file :
        IF target_file.tag = "Panic"
        THEN [result |-> Panic, written |-> None]
        ELSE IF post_processor # None
        THEN Let(post_process_image(buffer.val, target_file.val), LAMBDA processed :
               IF processed.tag = "Err"
               THEN [result |-> processed,
                     written |-> Some([path |-> target_file.val, bytes |-> << >>])]
               ELSE Let(WriteFile(processed.val[2], processed.val[1], fs), LAMBDA w :
                      [result |-> IF w.err # << >> THEN Err(w.err)
                                  ELSE Ok(StoredMessage(processed.val[3],
                                                        Len(buffer.val),
                                                        Len(processed.val[1]),
                                                        processed.val[2])),
                       written |-> w.written]))
        ELSE Let(WriteFile(target_file.val, buffer.val, fs), LAMBDA w :
               [result |-> IF w.err # << >> THEN Err(w.err)
                           ELSE Ok(StoredMessage(FALSE, Len(buffer.val),
                                                 Len(buffer.val), target_file.val)),
                written |-> w.written])))

\* store_file(filename, directory, content, post_processor) at time `now`
\* with the filesystem behaving as `fs`; post_processor is None or
\* Some("post_process_image").  Yields the Result (or Panic) and the file
\* written.
store_file(filename, directory, content, post_processor, now, fs) ==
    Let(base64_decode(content), LAMBDA buffer :
      IF buffer.tag = "Err"
      THEN [result |-> Err(BoxError(ServerError("InvalidEncoding", "Decoding failed",
                             << DynError("DecodeError", buffer.err, "") >>))),
            written |-> None]
      ELSE Let(get_target_file(filename, directory, now), LAMBDA target_file :
        IF target_file.tag = "Panic"
        THEN [result |-> Panic, written |-> None]
        ELSE IF post_processor # None
        THEN Let(post_process_image(buffer.val, target_file.val), LAMBDA processed :
               IF processed.tag = "Err"
               THEN [result |-> processed, written |-> None]
               ELSE Let(WriteFile(processed.val[2], processed.val[1], fs), LAMBDA w :
                      [result |-> IF w.err # << >> THEN Err(w.err)
                                  ELSE Ok(StoredMessage(processed.val[3],
                                                        Len(buffer.val),
                                                        Len(processed.val[1]),
                                                        processed.val[2])),
                       written |-> w.written]))
        ELSE Let(WriteFile(target_file.val, buffer.val, fs), LAMBDA w :
               [result |-> IF w.err # << >> THEN Err(w.err)
                           ELSE Ok(StoredMessage(FALSE, Len(buffer.val),
                                                 Len(buffer.val), target_file.val)),
                written |-> w.written])))

(***************************************************************************)
(* Command dispatcher (server/src/command.rs).  Every handler yields       *)
(* [result, written]: its Result (or Panic) and the file it left on disk.  *)
(***************************************************************************)
\* lazy_static COMMANDS: name -> description
COMMANDS ==
    [ Help  |-> "Lists all commands",
      Info  |-> "Logs an info text on server side",
      Msg   |-> "Sends a message",
      File  |-> "Stores a generic file",
      Image |-> "Stores an image file",
      Quit  |-> "Finalizes the communication, closes the stream" ]

\* iteration orders of the COMMANDS HashMap the model follows (the order is
\* fixed when the map is built and differs from process to process)
CommandOrders ==
    { << "File", "Help", "Image", "Info", "Msg", "Quit" >>,
      << "Quit", "Msg", "Help", "Image", "File", "Info" >> }

\* Config handed to every worker (server/src/config.rs, main.rs)
Config == [file_dir |-> "files", image_dir |-> "images", debug |-> "false"]

\* configurations the server is started with: the defaults of the command
\* line, and an image directory given relative to the current directory
Configs == {Config, [Config EXCEPT !.image_dir = "./images"]}

Handled(result) == [result |-> result, written |-> None]

InvalidMessageType(message) ==
    Handled(Err(StringError("Invalid message type: " \o DisplayMessage(message))))

\* help(message, config); `order` is the iteration order of COMMANDS
help(message, order) ==
    LET commands == Join([i \in 1..Len(order) |->
                             "  " \o order[i] \o ": " \o COMMANDS[order[i]]], "\n")
        text == "Available commands:\n" \o commands
    IN  Handled(Ok(ResponseOk(message.msg_id, Some(text))))

\* info answering with the msg_id of the first request the process served
\* (as if the id were kept in a static shared by the workers)
info_SharedId(message) ==
    IF message.payload # None /\ message.payload.val.type = "Info"
    THEN Handled(Ok(ResponseOk("c1-1",
                               Some("Info received: " \o message.payload.val.info))))
    ELSE InvalidMessageType(message)

\* info(message, config)
info(message) ==
    IF message.payload # None /\ message.payload.val.type = "Info"
    THEN Handled(Ok(ResponseOk(message.msg_id,
                               Some("Info received: " \o message.payload.val.info))))
    ELSE InvalidMessageType(message)

\* msg answering with an empty msg_id_ref
msg_NoRef(message) ==
    IF message.payload # None /\ message.payload.val.type = "Msg"
    THEN Handled(Ok(ResponseOk("", Some("Message received: "
                                        \o message.payload.val.text))))
    ELSE InvalidMessageType(message)

\* msg(message, config)
msg(message) ==
    IF message.payload # None /\ message.payload.val.type = "Msg"
    THEN Handled(Ok(ResponseOk(message.msg_id,
                               Some("Message received: " \o message.payload.val.text))))
    ELSE InvalidMessageType(message)

\* the `?` after store_file and the Ok(...) that follows it
StoredResponse(message, store) ==
    Let(store, LAMBDA stored :
      IF stored.result.tag = "Ok"
      THEN [result |-> Ok(ResponseOk(message.msg_id, Some(stored.result.val))),
            written |-> stored.written]
      ELSE stored)

\* file(message, config)
file(message, config, now, fs) ==
    IF message.payload # None /\ message.payload.val.type = "File"
    THEN StoredResponse(message,
             store_file(message.payload.val.filename, config.file_dir,
                        message.payload.val.content, None, now, fs))
    ELSE InvalidMessageType(message)

\* image(message, config)
image(message, config, now, fs) ==
    IF message.payload # None /\ message.payload.val.type = "Image"
    THEN StoredResponse(message,
             store_file(message.payload.val.filename, config.image_dir,
                        message.payload.val.content, Some("post_process_image"),
                        now, fs))
    ELSE InvalidMessageType(message)

\* quit(message, config)
quit(message) ==
    Handled(Ok(ResponseQuit(message.msg_id, Some("Hasta la vista"))))

\* handle_command(message, config)
handle_command(message, config, order, now, fs) ==
    IF message.payload # None
    THEN LET command_name == variant_name(message.payload.val)
         IN  IF command_name \in DOMAIN COMMANDS
             THEN CASE command_name = "Help"  -> help(message, order)
                    [] command_name = "Info"  -> info(message)
                    [] command_name = "Msg"   -> msg(message)
                    [] command_name = "File"  -> file(message, config, now, fs)
                    [] command_name = "Image" -> image(message, config, now, fs)
                    [] command_name = "Quit"  -> quit(message)
             ELSE Handled(Err(StringError(
                      "Invalid command " \o command_name \o ", valid are: [\""
                      \o Join(order, "\", \"") \o "\"]")))
    ELSE Handled(Err(StringError("No payload found in message")))

(***************************************************************************)
(* Wire codec and connection loop (server/src/stream_handler.rs).          *)
(*                                                                         *)
(* What receive_message finds on the stream is a complete frame,           *)
(* [kind |-> "frame", body |-> b]: 4 length bytes and the body they        *)
(* announce, the body being JSON text that either is a request or is not;  *)
(* or a frame the peer cut short before ending the stream,                 *)
(* [kind |-> "partial", part |-> p], p telling whether the length or the   *)
(* body was cut; or the end of the stream, [kind |-> "eof", io |-> kind].  *)
(***************************************************************************)
\* body text of a serialized request
RequestBody(request) == [json |-> "request", value |-> request]

\* body text that is not a ClientServerMessage
InvalidBody(why) == [json |-> "invalid", why |-> why]

Frame(body) == [kind |-> "frame", body |-> body]

Partial(part) == [kind |-> "partial", part |-> part]

\* the stream has no byte left and the peer ended it: read_exact fails with io
Eof(io) == [kind |-> "eof", io |-> io]

\* serde_json::from_slice::<ClientServerMessage>(&buffer)
from_slice(body) ==
    IF body.json = "request" THEN Ok(body.value)
    ELSE Err(<< DynError("serde_json::Error", body.why, "") >>)

\* receive_message taking the bytes of a body cut short as the body
receive_message_ShortBodyParsed(input) ==
    CASE input.kind = "eof" ->
           [result |-> Err(ServerError("MessageReceiveFailed",
                                       "Failed to read message length",
                                       IoError(input.io))),
            ops |-> << "read_length" >>]
      [] input.kind = "partial" /\ input.part = "length" ->
           [result |-> Err(ServerError("MessageReceiveFailed",
                                       "Failed to read message length",
                                       IoError("UnexpectedEof"))),
            ops |-> << "read_length" >>]
      [] input.kind = "partial" /\ input.part = "body" ->
           [result |-> Err(ServerError("MessageProcessingFailed",
                                       "Failed to parse message",
                                       << DynError("serde_json::Error",
                                                   "EOF while parsing", "") >>)),
            ops |-> << "read_length", "read_body" >>]
      [] input.kind = "frame" ->
           LET message == from_slice(input.body)
           IN  [result |-> IF message.tag = "Err"
                           THEN Err(ServerError("MessageProcessingFailed",
                                                "Failed to parse message",
                                                message.err))
                           ELSE message,
                ops |-> << "read_length", "read_body" >>]

\* receive_message(stream, debug) when the stream holds `input` next:
\* the Result and the reads it made
receive_message(input) ==
    CASE input.kind = "eof" ->
           [result |-> Err(ServerError("MessageReceiveFailed",
                                       "Failed to read message length",
                                       IoError(input.io))),
            ops |-> << "read_length" >>]
      [] input.kind = "partial" /\ input.part = "length" ->
           [result |-> Err(ServerError("MessageReceiveFailed",
                                       "Failed to read message length",
                                       IoError("UnexpectedEof"))),
            ops |-> << "read_length" >>]
      [] input.kind = "partial" /\ input.part = "body" ->
           [result |-> Err(ServerError("MessageReceiveFailed",
                                       "Failed to read message",
                                       IoError("UnexpectedEof"))),
            ops |-> << "read_length", "read_body" >>]
      [] input.kind = "frame" ->
           LET message == from_slice(input.body)
           IN  [result |-> IF message.tag = "Err"
                           THEN Err(ServerError("MessageProcessingFailed",
                                                "Failed to parse message",
                                                message.err))
                           ELSE message,
                ops |-> << "read_length", "read_body" >>]

\* outcome of the writes of one send_response: "ok", or the write_all that
\* fails and the kind of its io::Error (TcpStream::flush cannot fail).
\* BrokenPipe is the kind handle_stream looks for, ConnectionReset stands
\* for every other kind (a reset connection, ENOMEM or ENOBUFS of send)
WriteFailures ==
    { [stage |-> st, kind |-> k] :
          st \in {"length", "body"},
          k \in {"BrokenPipe", "ConnectionReset"} }

\* send_response(stream, response, debug) under a write outcome: the Result,
\* the writes attempted, and whether the whole frame reached the stream
send_response(response, outcome) ==
    IF outcome = [stage |-> "none", kind |-> ""]
    THEN [result |-> Ok(<< >>),
          ops |-> << "write_length", "write_body", "flush" >>,
          delivered |-> TRUE]
    ELSE IF outcome.stage = "length"
    THEN [result |-> Err(ServerError("ResponseSendingFailed",
                                     "Failed to send response length",
                                     IoError(outcome.kind))),
          ops |-> << "write_length" >>,
          delivered |-> FALSE]
    ELSE [result |-> Err(ServerError("ResponseSendingFailed",
                                     "Failed to send response",
                                     IoError(outcome.kind))),
          ops |-> << "write_length", "write_body" >>,
          delivered |-> FALSE]

\* e.source().and_then(|s| s.downcast_ref::<io::Error>()) is Some(io_err)
\* with io_err.kind() == BrokenPipe
IsBrokenPipe(e) ==
    /\ e.source # << >>
    /\ e.source[1].type = "io::Error"
    /\ e.source[1].kind = "BrokenPipe"

NoFailure == [stage |-> "none", kind |-> ""]

\* AfterSend without the `if let ServerClientMessage::Quit` break
AfterSend_NoQuitBreak(result, response) ==
    IF result.tag = "Err" /\ IsBrokenPipe(result.err) THEN "terminated"
    ELSE "awaiting"

\* AfterSend without the BrokenPipe break
AfterSend_NoBrokenPipeBreak(result, response) ==
    IF response.type = "Quit" THEN "terminated" ELSE "awaiting"

\* AfterSend leaving the loop after any Error response
AfterSend_EndOnError(result, response) ==
    IF result.tag = "Err" /\ IsBrokenPipe(result.err) THEN "terminated"
    ELSE IF response.type \in {"Quit", "Error"} THEN "terminated"
    ELSE "awaiting"

\* AfterSend leaving the loop for a Quit response only when it was sent
AfterSend_QuitOnlyWhenSent(result, response) ==
    IF result.tag = "Err" /\ IsBrokenPipe(result.err) THEN "terminated"
    ELSE IF response.type = "Quit" /\ result.tag = "Ok" THEN "terminated"
    ELSE "awaiting"

\* handle_stream, lines 96-113: where the loop goes after send_response
AfterSend(result, response) ==
    IF result.tag = "Err" /\ IsBrokenPipe(result.err) THEN "terminated"
    ELSE IF response.type = "Quit" THEN "terminated"
    ELSE "awaiting"

(***************************************************************************)
(* Wire format, byte by byte (stream_handler.rs of server and client,      *)
(* serde_json on common/src/message.rs).                                   *)
(*                                                                         *)
(* Here a Rust String is the sequence of its Unicode scalar values, JSON   *)
(* text is such a sequence too, and bytes are 0..255.  A u32 or usize is   *)
(* the pair << high, low >> of its 16-bit halves (high is not bounded for  *)
(* a usize), so that lengths of 2^32 and more can be written down.         *)
(***************************************************************************)
\* the characters U+0020..U+007E in order; U+0060 is never looked up, a
\* space holds its place
Ascii ==
    " !\"#$%&'()*+,-./0123456789:;<=>?@ABCDEFGHIJKLMNOPQRSTUVWXYZ[\\]^_ abcdefghijklmnopqrstuvwxyz{|}~"

\* each of those characters with its scalar value
AsciiTable == { << CharAt(Ascii, i), 31 + i >> : i \in (1..Len(Ascii)) \ {65} }

\* the scalar value of an ASCII character
CodePoint(ch) == (CHOOSE p \in AsciiTable : p[1] = ch)[2]

\* a string literal of the source as a String of the wire format
Chars(s) == Let([i \in 1..Len(s) |-> CodePoint(CharAt(s, i))],
                LAMBDA f : SubSeq(f, 1, Len(f)))

\* concatenation of a sequence of sequences (by halves)
Concat(seqs) ==
    Let(SubSeq(seqs, 1, Len(seqs)), LAMBDA ps :
      LET RECURSIVE Between(_, _)
          Between(i, j) ==
              IF i > j THEN << >>
              ELSE IF i = j THEN ps[i]
              ELSE Between(i, (i + j) \div 2) \o Between(((i + j) \div 2) + 1, j)
      IN  Between(1, Len(ps)))

\* the first position from i on where seq holds an element of set, or
\* Len(seq) + 1 when there is none
NextIn(seq, i, set) ==
    Let({j \in i..Len(seq) : seq[j] \in set} \cup {Len(seq) + 1}, LAMBDA found :
      CHOOSE j \in found : \A k \in found : j <= k)

\* str::as_bytes of one scalar value (UTF-8)
Utf8Char(cp) ==
    IF cp < 128 THEN << cp >>
    ELSE IF cp < 2048 THEN << 192 + (cp \div 64), 128 + (cp % 64) >>
    ELSE << 224 + (cp \div 4096), 128 + ((cp \div 64) % 64), 128 + (cp % 64) >>

\* str::as_bytes
as_bytes(str) == Concat([i \in 1..Len(str) |-> Utf8Char(str[i])])

RECURSIVE Utf8From(_, _, _)
\* the scalar values of bytes[i..], appended to acc; Err on malformed UTF-8
Utf8From(bytes, i, acc) ==
    IF i > Len(bytes) THEN Ok(acc)
    ELSE IF bytes[i] < 128
    THEN Let(NextIn(bytes, i, 128..255), LAMBDA j :
           Utf8From(bytes, j, acc \o SubSeq(bytes, i, j - 1)))
    ELSE IF /\ bytes[i] \in 194..223 /\ i + 1 <= Len(bytes)
            /\ bytes[i + 1] \in 128..191
    THEN Utf8From(bytes, i + 2,
                  Append(acc, (bytes[i] - 192) * 64 + (bytes[i + 1] - 128)))
    ELSE IF /\ bytes[i] \in 224..239 /\ i + 2 <= Len(bytes)
            /\ bytes[i + 1] \in 128..191 /\ bytes[i + 2] \in 128..191
            /\ (bytes[i] - 224) * 4096 + (bytes[i + 1] - 128) * 64 >= 2048
    THEN Utf8From(bytes, i + 3,
                  Append(acc, (bytes[i] - 224) * 4096 + (bytes[i + 1] - 128) * 64
                              + (bytes[i + 2] - 128)))
    ELSE Err("invalid unicode code point")

\* std::str::from_utf8
from_utf8(bytes) == Utf8From(bytes, 1, << >>)

HexDigits == Chars("0123456789abcdef")

\* EscapeChar leaving the quotation mark as it is
EscapeChar_QuoteUnescaped(cp) ==
    CASE cp = 92 -> Chars("\\\\")
      [] cp = 8  -> Chars("\\b")
      [] cp = 9  -> Chars("\\t")
      [] cp = 10 -> Chars("\\n")
      [] cp = 12 -> Chars("\\f")
      [] cp = 13 -> Chars("\\r")
      [] cp < 32 /\ cp \notin {8, 9, 10, 12, 13} ->
           Chars("\\u00") \o << HexDigits[(cp \div 16) + 1], HexDigits[(cp % 16) + 1] >>
      [] OTHER -> << cp >>

\* serde_json's escape of one scalar value inside a JSON string
EscapeChar(cp) ==
    CASE cp = 34 -> Chars("\\\"")
      [] cp = 92 -> Chars("\\\\")
      [] cp = 8  -> Chars("\\b")
      [] cp = 9  -> Chars("\\t")
      [] cp = 10 -> Chars("\\n")
      [] cp = 12 -> Chars("\\f")
      [] cp = 13 -> Chars("\\r")
      [] cp < 32 /\ cp \notin {8, 9, 10, 12, 13} ->
           Chars("\\u00") \o << HexDigits[(cp \div 16) + 1], HexDigits[(cp % 16) + 1] >>
      [] OTHER -> << cp >>

\* a String as a JSON string
JsonString(str) ==
    << 34 >> \o Concat([i \in 1..Len(str) |-> EscapeChar(str[i])]) \o << 34 >>

JsonNull == Chars("null")

\* Option<String> as JSON
JsonOptString(opt) == IF opt = None THEN JsonNull ELSE JsonString(opt.val)

\* the fields of each Payload variant, in declaration order
PayloadFields ==
    [ Help  |-> << >>,
      Info  |-> << "info", "hostname" >>,
      Msg   |-> << "text" >>,
      File  |-> << "filename", "content" >>,
      Image |-> << "filename", "content" >>,
      Quit  |-> << >> ]

\* the keys of the structs and enums of message.rs, each as "key":
JsonKey ==
    [ type       |-> JsonString(Chars("type")) \o << 58 >>,
      data       |-> JsonString(Chars("data")) \o << 58 >>,
      msg_id     |-> JsonString(Chars("msg_id")) \o << 58 >>,
      payload    |-> JsonString(Chars("payload")) \o << 58 >>,
      info       |-> JsonString(Chars("info")) \o << 58 >>,
      hostname   |-> JsonString(Chars("hostname")) \o << 58 >>,
      text       |-> JsonString(Chars("text")) \o << 58 >>,
      filename   |-> JsonString(Chars("filename")) \o << 58 >>,
      content    |-> JsonString(Chars("content")) \o << 58 >>,
      msg_id_ref |-> JsonString(Chars("msg_id_ref")) \o << 58 >>,
      code       |-> JsonString(Chars("code")) \o << 58 >> ]

\* the variant names of Payload and ServerClientMessage as Strings
VariantChars ==
    [ Help |-> Chars("Help"), Info |-> Chars("Info"), Msg |-> Chars("Msg"),
      File |-> Chars("File"), Image |-> Chars("Image"), Quit |-> Chars("Quit"),
      Ok |-> Chars("Ok"), Error |-> Chars("Error") ]

\* a struct as a JSON object: "name":value pairs joined with commas
JsonObject(names, values) ==
    << 123 >>
    \o Concat([i \in 1..Len(names) |->
                  (IF i > 1 THEN << 44 >> ELSE << >>) \o JsonKey[names[i]]
                  \o values[i]])
    \o << 125 >>

\* #[serde(tag = "type", content = "data")]: {"type":"<variant>","data":{...}}
JsonTagged(variant, names, values) ==
    JsonObject(<< "type", "data" >>,
               << JsonString(VariantChars[variant]), JsonObject(names, values) >>)

\* serde_json::to_string(&Payload)
payload_to_string(p) ==
    JsonTagged(p.type, PayloadFields[p.type],
               [i \in 1..Len(PayloadFields[p.type]) |->
                   JsonString(p[PayloadFields[p.type][i]])])

\* serde_json::to_string(&ClientServerMessage)
to_string(message) ==
    JsonObject(<< "msg_id", "payload" >>,
               << JsonString(message.msg_id),
                  IF message.payload = None THEN JsonNull
                  ELSE payload_to_string(message.payload.val) >>)

\* serde_json::to_string(&ServerClientMessage)
response_to_string(response) ==
    IF response.type = "Error"
    THEN JsonTagged("Error", << "msg_id_ref", "code", "text" >>,
                    << JsonString(response.msg_id_ref), JsonString(response.code),
                       JsonOptString(response.text) >>)
    ELSE JsonTagged(response.type, << "msg_id_ref", "text" >>,
                    << JsonString(response.msg_id_ref),
                       JsonOptString(response.text) >>)

\* a String of ASCII characters as a string of the model
Str(str) ==
    Join([i \in 1..Len(str) |->
             IF str[i] \in 32..126 THEN CharAt(Ascii, str[i] - 31) ELSE "?"], "")

\* the position after lit when text holds lit at position i, else 0
Expect(text, i, lit) ==
    IF /\ i # 0 /\ i + Len(lit) - 1 <= Len(text)
       /\ SubSeq(text, i, i + Len(lit) - 1) = lit
    THEN i + Len(lit) ELSE 0

\* value of a hexadecimal digit, 16 for any other character
HexValue(cp) ==
    IF cp \in 48..57 THEN cp - 48
    ELSE IF cp \in 97..102 THEN cp - 87
    ELSE IF cp \in 65..70 THEN cp - 55
    ELSE 16

\* the character an escape letter of JSON stands for, 0 for none
Unescaped(cp) ==
    CASE cp \in {34, 47, 92} -> cp
      [] cp = 98  -> 8
      [] cp = 102 -> 12
      [] cp = 110 -> 10
      [] cp = 114 -> 13
      [] cp = 116 -> 9
      [] OTHER -> 0

RECURSIVE ScanString(_, _, _)
\* serde_json reading a JSON string whose opening quote precedes position
\* i: [next, val], the position after the closing quote and the String
\* read, or next = 0 when the text is no JSON string
ScanString(text, i, acc) ==
    IF i > Len(text) \/ text[i] < 32 THEN [next |-> 0]
    ELSE IF text[i] = 34 THEN [next |-> i + 1, val |-> acc]
    ELSE IF text[i] # 92
    THEN Let(NextIn(text, i, 0..31 \cup {34, 92}), LAMBDA j :
           ScanString(text, j, acc \o SubSeq(text, i, j - 1)))
    ELSE IF i = Len(text) THEN [next |-> 0]
    ELSE IF Unescaped(text[i + 1]) # 0
    THEN ScanString(text, i + 2, Append(acc, Unescaped(text[i + 1])))
    ELSE IF /\ text[i + 1] = 117 /\ i + 5 <= Len(text)
            /\ \A k \in 2..5 : HexValue(text[i + k]) < 16
    THEN ScanString(text, i + 6,
                    Append(acc, HexValue(text[i + 2]) * 4096
                                + HexValue(text[i + 3]) * 256
                                + HexValue(text[i + 4]) * 16
                                + HexValue(text[i + 5])))
    ELSE [next |-> 0]

\* a JSON string starting at position i
ParseString(text, i) ==
    IF i # 0 /\ i <= Len(text) /\ text[i] = 34
    THEN ScanString(text, i + 1, << >>) ELSE [next |-> 0]

RECURSIVE ParseFields(_, _, _, _, _)
\* the "name":string pairs of names[k..] starting at position i, in
\* declaration order: [next, val] with the Strings read, or next = 0
ParseFields(text, i, names, k, acc) ==
    IF k > Len(names) THEN [next |-> i, val |-> acc]
    ELSE Let(ParseString(text,
                 Expect(text, Expect(text, i, IF k > 1 THEN << 44 >> ELSE << >>),
                        JsonKey[names[k]])),
             LAMBDA str :
               IF str.next = 0 THEN [next |-> 0]
               ELSE ParseFields(text, str.next, names, k + 1, Append(acc, str.val)))

\* the Payload variant with the given field values
MakePayload(variant, values) ==
    CASE variant = "Help"  -> Help
      [] variant = "Info"  -> Info(values[1], values[2])
      [] variant = "Msg"   -> Msg(values[1])
      [] variant = "File"  -> File(values[1], values[2])
      [] variant = "Image" -> Image(values[1], values[2])
      [] variant = "Quit"  -> Quit

\* serde_json::from_str::<ClientServerMessage> on JSON text as serde_json
\* writes it (no white space): the body read, RequestBody or InvalidBody;
\* the messages of serde_json::Error are shortened
from_str(text) ==
    Let(ParseString(text, Expect(text, 1, << 123 >> \o JsonKey.msg_id)), LAMBDA id :
      IF id.next = 0 THEN InvalidBody("expected msg_id")
      ELSE IF Expect(text, id.next,
                     << 44 >> \o JsonKey.payload \o JsonNull \o << 125 >>)
              = Len(text) + 1
      THEN RequestBody(ClientServerMessage(id.val, None))
      ELSE Let(ParseString(text,
                   Expect(text, id.next,
                          << 44 >> \o JsonKey.payload \o << 123 >> \o JsonKey.type)),
               LAMBDA type :
        IF type.next = 0 THEN InvalidBody("expected payload")
        ELSE IF \A v \in DOMAIN PayloadFields : VariantChars[v] # type.val
        THEN InvalidBody("unknown variant " \o Str(type.val))
        ELSE Let(CHOOSE v \in DOMAIN PayloadFields : VariantChars[v] = type.val,
                 LAMBDA variant :
          Let(ParseFields(text,
                  Expect(text, type.next, << 44 >> \o JsonKey.data \o << 123 >>),
                  PayloadFields[variant], 1, << >>),
              LAMBDA fields :
            IF \/ fields.next = 0
               \/ Expect(text, fields.next, << 125, 125, 125 >>) # Len(text) + 1
            THEN InvalidBody("invalid data of " \o variant)
            ELSE RequestBody(ClientServerMessage(
                     id.val, Some(MakePayload(variant, fields.val))))))))

\* what serde_json::from_slice finds in the bytes of a body
ParseBody(bytes) ==
    Let(from_utf8(bytes), LAMBDA text :
      IF text.tag = "Err" THEN InvalidBody(text.err) ELSE from_str(text.val))

\* a length as a usize
Usize(n) == << n \div 65536, n % 65536 >>

\* `as u32`: the low 32 bits
AsU32(n) == << n[1] % 65536, n[2] >>

\* the number a usize below 2^31 stands for
AsNat(n) == n[1] * 65536 + n[2]

\* u32::to_be_bytes
to_be_bytes(u) == << u[1] \div 256, u[1] % 256, u[2] \div 256, u[2] % 256 >>

\* u32::from_be_bytes(..) as usize
from_be_bytes(b) == << b[1] * 256 + b[2], b[3] * 256 + b[4] >>

\* the 4 bytes written before a serialized body of `length` bytes:
\* (serialized.len() as u32).to_be_bytes()
FramePrefix(length) == to_be_bytes(AsU32(length))

\* the bytes written for a serialized message: write_all of the length,
\* write_all of serialized.as_bytes()
WriteFrame(serialized) ==
    Let(as_bytes(serialized), LAMBDA bytes :
      FramePrefix(Usize(Len(bytes))) \o bytes)

\* read_exact has no byte to deliver and the stream has not ended
Blocked == [input |-> None, consumed |-> 0]

\* ReadFrame through a buffered reader: what is on the stream behind the
\* frame is taken off it as well
ReadFrame_ReadAhead(stream, ended) ==
    IF Len(stream) < 4
    THEN IF ~ended THEN Blocked
         ELSE [input |-> IF Len(stream) = 0 THEN Eof("UnexpectedEof")
                         ELSE Partial("length"),
               consumed |-> Len(stream)]
    ELSE Let(from_be_bytes(SubSeq(stream, 1, 4)), LAMBDA length :
           IF length[1] >= 32768 \/ AsNat(length) > Len(stream) - 4
           THEN IF ~ended THEN Blocked
                ELSE [input |-> Partial("body"), consumed |-> Len(stream)]
           ELSE [input |-> Frame(ParseBody(SubSeq(stream, 5, 4 + AsNat(length)))),
                 consumed |-> Len(stream)])

\* what the two read_exact calls of receive_message find on a stream holding
\* `stream` (ended tells whether the peer has ended it): the input of
\* receive_message and the number of bytes taken off the stream
ReadFrame(stream, ended) ==
    IF Len(stream) < 4
    THEN IF ~ended THEN Blocked
         ELSE [input |-> IF Len(stream) = 0 THEN Eof("UnexpectedEof")
                         ELSE Partial("length"),
               consumed |-> Len(stream)]
    ELSE Let(from_be_bytes(SubSeq(stream, 1, 4)), LAMBDA length :
           IF length[1] >= 32768 \/ AsNat(length) > Len(stream) - 4
           THEN IF ~ended THEN Blocked
                ELSE [input |-> Partial("body"), consumed |-> Len(stream)]
           ELSE [input |-> Frame(ParseBody(SubSeq(stream, 5, 4 + AsNat(length)))),
                 consumed |-> 4 + AsNat(length)])

(***************************************************************************)
(* State.                                                                  *)
(***************************************************************************)
\* connections the listener can be offered
Conns == {1, 2}

VARIABLES
    clients,          \* the peers that connect in this run and what they send
    config,           \* the Config the server was started with
    commandsOrder,    \* iteration order of the COMMANDS map of this process
    now,              \* wall clock, in seconds
    files,            \* the storage directories: set of [path, bytes]
    stored,           \* the store operations that wrote a file: the second,
                      \* the basename they were given, the path written
    pc,               \* per connection: position of its worker
    link,             \* per connection: what the peer did to the connection
    inbox,            \* per connection: what the peer wrote, still unread
    nsent,            \* per connection: frames the peer has written
    iter,             \* per connection: iterations of the loop started
    message_result,   \* per connection: result of receive_message
    handler_result,   \* per connection: result of handle_command
    response_message, \* per connection: the response to send
    send_result,      \* per connection: result of send_response
    ioLog,            \* per connection: reads and writes made
    errlog,           \* per connection: line written with elog!
    outStream,        \* per connection: what the worker's writes have left on
                      \* the stream so far
                      \* (the last six: of the current iteration, or of the
                      \* last one once the worker has ended)
    wire,             \* byte stream of one connection: bytes written by the
                      \* peer and not yet read by receive_message
    wireEnd,          \* whether the peer has ended that stream
    requests,         \* the requests the client wrote on it, in order
    received,         \* what each receive_message call on it returned
    outFrame,         \* the frame the last send_response wrote, if any
    call,             \* the last call made of a function on its own (as the
                      \* tests of the repository make them): its arguments
                      \* and what it returned
    cli,              \* the client program: where its main is, the state of
                      \* its TcpStream, what is in flight on it
    lineConn,         \* one connection of the line-oriented server of
                      \* homework 9 and 11 and the client at its other end
    pipeline          \* the streaming transformer of homework 7: its
                      \* supplier, transformer and main threads, the channel

\* the client program after TcpStream::connect succeeded (client/src/main.rs,
\* lines 34-35): nothing read from standard input, nothing written
ClientStart ==
    [ pc |-> "main", stream |-> "established", sessions |-> 0, lines |-> 0,
      written |-> 0, answered |-> 0, request |-> None, response |-> None, dropped |-> FALSE,
      quit |-> FALSE, result |-> None, read |-> None, ended |-> FALSE ]

\* a connection of the line-oriented server just accepted (homework-11
\* server/src/stream_handler.rs, lines 11-13): the client has written
\* nothing; counts of bytes are those of the command under way
LineStart ==
    [ cpc |-> "prompt", spc |-> "read_line", commands |-> 0, command |-> None,
      written |-> 0, arrived |-> 0, consumed |-> 0, lost |-> 0, body |-> 0,
      response |-> FALSE, responses |-> 0 ]

\* the streaming transformer when main has created the channel (homework-07
\* src/main.rs, lines 20-29): no thread has run yet
PipelineStart ==
    [ main |-> "waiting_ready", supplier |-> "not_started",
      transformer |-> "starting", channel |-> << >>, receiver |-> TRUE,
      ready |-> FALSE, lines |-> 0, outputs |-> << >> ]

\* the variables of the byte-level view of a connection
codecVars == << wire, wireEnd, requests, received, outFrame >>

\* the variables of the server and its peers
serverVars ==
    << clients, config, commandsOrder, now, files, stored, pc, link, inbox, nsent, iter,
       message_result, handler_result, response_message, send_result, ioLog,
       errlog, outStream >>

vars ==
    << clients, config, commandsOrder, now, files, stored, pc, link, inbox, nsent, iter,
       message_result, handler_result, response_message, send_result, ioLog,
       errlog, outStream, wire, wireEnd, requests, received, outFrame, call, cli, lineConn, pipeline >>

\* the byte-level view before anything was written
InitWire ==
    /\ wire = << >>
    /\ wireEnd = "open"
    /\ requests = << >>
    /\ received = << >>
    /\ outFrame = None

\* the client's msg_id: a fresh token per request (Uuid::new_v4)
MsgId(c, n) == "c" \o ToString(c) \o "-" \o ToString(n)

\* file names and contents the peers put into File and Image requests
Filenames == {"", "/", "..", "../b.jpg", "b"}

Contents ==
    { "!",
      base64_encode(<< 104, 105 >>),
      base64_encode(JpegMagic \o << 7 >>) }

\* payloads of the requests the peers send; None is a request without payload
ClientPayloads ==
    {None, Some(Help), Some(Info("hello", "host")), Some(Msg("hi")), Some(Quit)}
    \cup {Some(File(f, k)) : f \in Filenames, k \in Contents}
    \cup {Some(Image(f, k)) : f \in Filenames, k \in Contents}

\* bodies a peer of the given kind writes in the frame it tags msg_id:
\* a peer of kind "info" sends Info requests only, a peer of kind "any"
\* sends every request and also text that is no request
ClientBodies(kind, msg_id) ==
    IF kind = "info"
    THEN {RequestBody(ClientServerMessage(msg_id, Some(Info("hello", "host"))))}
    ELSE {RequestBody(ClientServerMessage(msg_id, p)) : p \in ClientPayloads}
         \cup {InvalidBody("unknown variant Bogus")}

\* the n-th frame a peer wrote, still in flight; its body is one of
\* ClientBodies and is known to the server once receive_message has read it
InFlight(n) == [kind |-> "frame", seq |-> n]

InitConn ==
    /\ pc = [c \in Conns |-> "idle"]
    /\ link = [c \in Conns |-> "open"]
    /\ inbox = [c \in Conns |-> << >>]
    /\ nsent = [c \in Conns |-> 0]
    /\ iter = [c \in Conns |-> 0]
    /\ message_result = [c \in Conns |-> None]
    /\ handler_result = [c \in Conns |-> None]
    /\ response_message = [c \in Conns |-> None]
    /\ send_result = [c \in Conns |-> None]
    /\ ioLog = [c \in Conns |-> << >>]
    /\ errlog = [c \in Conns |-> None]
    /\ outStream = [c \in Conns |-> "frames"]
    /\ now = 0
    /\ files = {}
    /\ stored = {}
    /\ commandsOrder \in CommandOrders

\* the server is listening and one peer is about to connect
Init ==
    /\ clients = [c \in {1} |-> "any"]
    /\ config \in Configs
    /\ InitConn
    /\ InitWire
    /\ call = None
    /\ cli = ClientStart
    /\ lineConn = LineStart
    /\ pipeline = PipelineStart

(***************************************************************************)
(* The peers and the clock.                                                *)
(***************************************************************************)
\* a peer writes one frame on its connection
ClientSend(c) ==
    /\ c \in DOMAIN clients
    /\ pc[c] # "idle"
    /\ link[c] = "open"
    /\ nsent[c] < MaxFrames
    /\ inbox' = [inbox EXCEPT ![c] = Append(@, InFlight(nsent[c] + 1))]
    /\ nsent' = [nsent EXCEPT ![c] = @ + 1]
    /\ UNCHANGED codecVars
    /\ UNCHANGED << call, cli, lineConn, pipeline >>
    /\ UNCHANGED outStream
    /\ UNCHANGED << clients, config, commandsOrder, now, files, stored, pc, link, iter,
                    message_result, handler_result, response_message,
                    send_result, ioLog, errlog >>

\* a peer ends its side of the stream ("shutdown_wr": it still reads) or
\* closes the connection ("closed"), possibly in the middle of a frame
ClientClose(c, how, cut) ==
    /\ c \in DOMAIN clients
    /\ pc[c] # "idle"
    /\ \/ link[c] = "open"
       \/ link[c] = "shutdown_wr" /\ how = "closed" /\ cut = "none"
    /\ link' = [link EXCEPT ![c] = how]
    /\ inbox' = [inbox EXCEPT ![c] =
                    IF cut = "none" THEN @ ELSE Append(@, Partial(cut))]
    /\ UNCHANGED codecVars
    /\ UNCHANGED << call, cli, lineConn, pipeline >>
    /\ UNCHANGED outStream
    /\ UNCHANGED << clients, config, commandsOrder, now, files, stored, pc, nsent, iter,
                    message_result, handler_result, response_message,
                    send_result, ioLog, errlog >>

\* a second passes
Tick ==
    /\ now < MaxClock
    /\ now' = now + 1
    /\ UNCHANGED codecVars
    /\ UNCHANGED << call, cli, lineConn, pipeline >>
    /\ UNCHANGED outStream
    /\ UNCHANGED << clients, config, commandsOrder, files, stored, pc, link, inbox, nsent, iter,
                    message_result, handler_result, response_message,
                    send_result, ioLog, errlog >>

(***************************************************************************)
(* The server: accept loop (main.rs) and the connection loop of each       *)
(* worker (handle_stream), one action per blocking step of an iteration.   *)
(***************************************************************************)
\* main, lines 51-74: listener.incoming() yields the connection of peer c;
\* a worker is spawned for it unless peer_addr() or the spawn fails
Accept(c, outcome) ==
    /\ c \in DOMAIN clients
    /\ pc[c] = "idle"
    /\ pc' = [pc EXCEPT ![c] = IF outcome = "spawned" THEN "awaiting" ELSE "dropped"]
    /\ UNCHANGED codecVars
    /\ UNCHANGED << call, cli, lineConn, pipeline >>
    /\ UNCHANGED outStream
    /\ UNCHANGED << clients, config, commandsOrder, now, files, stored, link, inbox, nsent, iter,
                    message_result, handler_result, response_message,
                    send_result, ioLog, errlog >>

\* io errors read_exact can meet on a stream with no byte left
EofKinds(l) ==
    IF l = "closed" THEN {"UnexpectedEof", "ConnectionReset"}
    ELSE IF l = "shutdown_wr" THEN {"UnexpectedEof"}
    ELSE {}

\* write outcomes the connection allows: the model lets writes fail only
\* once the peer has closed its side; they can still succeed then (the data
\* is buffered, or the peer still reads)
WriteOutcomes(l) ==
    IF l = "closed" THEN {NoFailure} \cup WriteFailures ELSE {NoFailure}

\* what receive_message can find on the stream of connection c
Inputs(c) ==
    IF inbox[c] = << >> THEN {Eof(io) : io \in EofKinds(link[c])}
    ELSE IF Head(inbox[c]).kind = "partial" THEN {Head(inbox[c])}
    ELSE {Frame(body) :
             body \in ClientBodies(clients[c], MsgId(c, Head(inbox[c]).seq))}

\* handle_stream, line 77: receive_message returns (it blocks while the
\* stream is open and empty)
ReceiveMessage(c) ==
    /\ pc[c] = "awaiting"
    /\ iter[c] < MaxIter
    /\ \E input \in Inputs(c) :
          LET r == receive_message(input)
          IN  /\ message_result' = [message_result EXCEPT ![c] = r.result]
              /\ ioLog' = [ioLog EXCEPT ![c] = r.ops]
    /\ inbox' = [inbox EXCEPT ![c] = IF @ # << >> THEN Tail(@) ELSE @]
    /\ iter' = [iter EXCEPT ![c] = @ + 1]
    /\ pc' = [pc EXCEPT ![c] = "dispatching"]
    /\ handler_result' = [handler_result EXCEPT ![c] = None]
    /\ response_message' = [response_message EXCEPT ![c] = None]
    /\ send_result' = [send_result EXCEPT ![c] = None]
    /\ errlog' = [errlog EXCEPT ![c] = None]
    /\ UNCHANGED codecVars
    /\ UNCHANGED << call, cli, lineConn, pipeline >>
    /\ UNCHANGED outStream
    /\ UNCHANGED << clients, config, commandsOrder, now, files, stored, link, nsent >>

\* handle_stream, line 77, in an iteration after the MaxIter ones that are
\* counted: receive_message returns
ReceiveMessageAgain(c) ==
    /\ pc[c] = "awaiting"
    /\ iter[c] = MaxIter
    /\ \E input \in Inputs(c) :
          LET r == receive_message(input)
          IN  /\ message_result' = [message_result EXCEPT ![c] = r.result]
              /\ ioLog' = [ioLog EXCEPT ![c] = r.ops]
    /\ inbox' = [inbox EXCEPT ![c] = IF @ # << >> THEN Tail(@) ELSE @]
    /\ pc' = [pc EXCEPT ![c] = "dispatching"]
    /\ handler_result' = [handler_result EXCEPT ![c] = None]
    /\ response_message' = [response_message EXCEPT ![c] = None]
    /\ send_result' = [send_result EXCEPT ![c] = None]
    /\ errlog' = [errlog EXCEPT ![c] = None]
    /\ UNCHANGED codecVars
    /\ UNCHANGED << call, cli, lineConn, pipeline >>
    /\ UNCHANGED outStream
    /\ UNCHANGED << clients, config, commandsOrder, now, files, stored, link,
                    nsent, iter >>

\* the files after a handler left `written` on disk (File::create truncates)
FilesAfter(fset, written) ==
    IF written = None THEN fset
    ELSE {f \in fset : f.path # written.val.path} \cup {written.val}

\* the store operations after a handler left `written` on disk for the
\* request `message` in second `second`
StoredAfter(ops, message, written, second) ==
    IF written = None THEN ops
    ELSE ops \cup {[second   |-> second,
                    basename |-> file_name(message.payload.val.filename).val,
                    path     |-> written.val.path]}

\* ProcessingFailure handing the cause on under the catch-all kind
ProcessingFailure_General(cause) ==
    ServerError("GeneralIssue", "Failed to process message", cause)

\* ProcessingFailure wrapping the cause under the kind of a failed send
ProcessingFailure_AsSendingFailed(cause) ==
    ServerError("ResponseSendingFailed", "Failed to process message", cause)

\* handle_stream, lines 84-90: the error a failed handle_command becomes
ProcessingFailure(cause) ==
    ServerError("MessageProcessingFailed", "Failed to process message", cause)

\* handle_stream, lines 78-95: the match on message_result; a panic of the
\* handler unwinds the worker thread
Dispatch(c, fs) ==
    /\ pc[c] = "dispatching"
    /\ IF message_result[c].tag = "Ok"
       THEN \E h \in {handle_command(message_result[c].val, config,
                                     commandsOrder, now, fs)} :
            LET message == message_result[c].val
                e == ProcessingFailure(h.result.err)
            IN  /\ files' = FilesAfter(files, h.written)
                /\ stored' = StoredAfter(stored, message, h.written, now)
                /\ handler_result' = [handler_result EXCEPT ![c] = h.result]
                /\ CASE h.result.tag = "Panic" ->
                          /\ pc' = [pc EXCEPT ![c] = "panicked"]
                          /\ UNCHANGED << response_message, errlog >>
                     [] h.result.tag = "Ok" ->
                          /\ pc' = [pc EXCEPT ![c] = "sending"]
                          /\ response_message' =
                                 [response_message EXCEPT ![c] = h.result.val]
                          /\ UNCHANGED errlog
                     [] h.result.tag = "Err" ->
                          /\ pc' = [pc EXCEPT ![c] = "sending"]
                          /\ response_message' =
                                 [response_message EXCEPT ![c] =
                                     to_client_message(e, Some(message.msg_id))]
                          /\ errlog' = [errlog EXCEPT ![c] =
                                           Some(to_client_message_log(e))]
       ELSE /\ pc' = [pc EXCEPT ![c] = "sending"]
            /\ response_message' =
                   [response_message EXCEPT ![c] =
                       to_client_message(message_result[c].err, None)]
            /\ errlog' = [errlog EXCEPT ![c] =
                             Some(to_client_message_log(message_result[c].err))]
            /\ UNCHANGED << files, stored, handler_result >>
    /\ UNCHANGED codecVars
    /\ UNCHANGED << call, cli, lineConn, pipeline >>
    /\ UNCHANGED outStream
    /\ UNCHANGED << clients, config, commandsOrder, now, link, inbox, nsent, iter,
                    message_result, send_result, ioLog >>

\* the stream after the writes of one send_response: a write_all of the
\* length that fails leaves it as it was; otherwise bytes were written,
\* which follow an unfinished frame if there is one, and which are a whole
\* frame unless the write_all of the body failed
StreamAfter(stream, outcome) ==
    IF outcome.stage = "length" THEN stream
    ELSE IF stream # "frames" THEN "garbled"
    ELSE IF outcome.stage = "body" THEN "unfinished"
    ELSE "frames"

\* handle_stream, lines 96-117: send_response and the end of the iteration
Send(c, outcome) ==
    /\ pc[c] = "sending"
    /\ outcome \in WriteOutcomes(link[c])
    /\ outStream' = [outStream EXCEPT ![c] = StreamAfter(@, outcome)]
    /\ LET r == send_response(response_message[c], outcome)
       IN  /\ send_result' = [send_result EXCEPT ![c] = r.result]
           /\ ioLog' = [ioLog EXCEPT ![c] = @ \o r.ops]
           /\ pc' = [pc EXCEPT ![c] = AfterSend(r.result, response_message[c])]
    /\ UNCHANGED codecVars
    /\ UNCHANGED << call, cli, lineConn, pipeline >>
    /\ UNCHANGED << clients, config, commandsOrder, now, files, stored, link, inbox, nsent, iter,
                    message_result, handler_result, response_message, errlog >>

Next ==
    \/ \E c \in Conns, outcome \in {"spawned", "peer_addr_failed", "spawn_failed"} :
          Accept(c, outcome)
    \/ \E c \in Conns : ClientSend(c)
    \/ \E c \in Conns, how \in {"shutdown_wr", "closed"},
          cut \in {"none", "length", "body"} : ClientClose(c, how, cut)
    \/ Tick
    \/ \E c \in Conns : ReceiveMessage(c)
    \/ \E c \in Conns, fs \in FsOutcomes : Dispatch(c, fs)
    \/ \E c \in Conns, outcome \in {NoFailure} \cup WriteFailures : Send(c, outcome)

Spec == Init /\ [][Next]_vars

\* the server is listening and two peers are about to connect, each of them
\* sending Info requests
InitConc ==
    /\ clients = [c \in Conns |-> "info"]
    /\ config = Config
    /\ InitConn
    /\ InitWire
    /\ call = None
    /\ cli = ClientStart
    /\ lineConn = LineStart
    /\ pipeline = PipelineStart

\* the steps of the server with two peers sending Info requests: the clock
\* is left out, it is read by store_file only (file.rs, line 52), which an
\* Info request does not reach
NextConc ==
    \/ \E c \in Conns, outcome \in {"spawned", "peer_addr_failed", "spawn_failed"} :
          Accept(c, outcome)
    \/ \E c \in Conns : ClientSend(c)
    \/ \E c \in Conns, how \in {"shutdown_wr", "closed"},
          cut \in {"none", "length", "body"} : ClientClose(c, how, cut)
    \/ \E c \in Conns : ReceiveMessage(c)
    \/ \E c \in Conns, fs \in FsOutcomes : Dispatch(c, fs)
    \/ \E c \in Conns, outcome \in {NoFailure} \cup WriteFailures : Send(c, outcome)

SpecConc == InitConc /\ [][NextConc]_vars

(***************************************************************************)
(* One connection seen byte by byte: the client writes frames               *)
(* (client/src/stream_handler.rs, lines 53-64), receive_message reads them  *)
(* and send_response writes frames back.                                    *)
(***************************************************************************)
\* a text longer than 255 bytes
LongText == Let([i \in 1..260 |-> 104], LAMBDA f : SubSeq(f, 1, Len(f)))

\* requests the client sends: every variant and the absent payload, with
\* empty Strings, quotes, backslashes, control characters, a character
\* outside ASCII and a long text
WireRequests ==
    { ClientServerMessage(Chars("a1"), None),
      ClientServerMessage(Chars("a1"), Some(Help)),
      ClientServerMessage(Chars("b2"), Some(Quit)),
      ClientServerMessage(Chars("a1"),
                          Some(Info(<< 34, 92, 10, 233, 1 >>, Chars("host")))),
      ClientServerMessage(Chars("a1"), Some(Msg(LongText))),
      ClientServerMessage(Chars("b2"), Some(File(Chars("../b.jpg"), Chars("aGk")))),
      ClientServerMessage(<< >>, Some(Image(<< >>, << >>))) }

\* bodies of well-formed frames that are no request
RawBodies ==
    { [raw |-> Chars("{\"msg_id\":\"c3\",\"payload\":{\"type\":\"Bogus\",\"data\":{}}}")] }

\* the serialized body of what the peer sends
BodyText(entry) == IF "raw" \in DOMAIN entry THEN entry.raw ELSE to_string(entry)

\* what the peer can send, each with the frame the client writes for it
\* (client handle_stream, lines 53-61)
ClientFrames ==
    { << entry, WriteFrame(BodyText(entry)) >> : entry \in WireRequests \cup RawBodies }

\* the frame of one of them
ClientFrame(entry) == (CHOOSE p \in ClientFrames : p[1] = entry)[2]

\* the peer writes one frame
WireSend(entry) ==
    /\ wireEnd = "open"
    /\ Len(requests) < MaxFrames
    /\ wire' = wire \o ClientFrame(entry)
    /\ requests' = Append(requests, entry)
    /\ UNCHANGED << wireEnd, received, outFrame >>
    /\ UNCHANGED serverVars
    /\ UNCHANGED << call, cli, lineConn, pipeline >>

\* the bytes of a frame that went out when the peer ended the stream in the
\* middle of it: 1 or 3 bytes of the length, the length alone, or all but
\* the last byte of the body
KeptBytes(keep, frame) ==
    CASE keep = "one"    -> 1
      [] keep = "three"  -> 3
      [] keep = "length" -> 4
      [] keep = "most"   -> Len(frame) - 1

\* the peer ends the stream: after the frames it wrote ("all"), or in the
\* middle of the last one
WireClose(keep) ==
    /\ wireEnd = "open"
    /\ IF keep = "all"
       THEN wireEnd' = "ended" /\ wire' = wire
       ELSE /\ requests # << >>
            /\ \E frame \in {ClientFrame(requests[Len(requests)])} :
                  /\ Len(wire) >= Len(frame)
                  /\ wire' = SubSeq(wire, 1, Len(wire) - Len(frame)
                                             + KeptBytes(keep, frame))
            /\ wireEnd' = "cut"
    /\ UNCHANGED << requests, received, outFrame >>
    /\ UNCHANGED serverVars
    /\ UNCHANGED << call, cli, lineConn, pipeline >>

\* handle_stream, line 77: a call of receive_message returns; the response
\* to what it returned before has been written
WireReceive ==
    /\ Len(received) < MaxIter
    /\ received = << >> \/ outFrame # None
    /\ \E r \in {ReadFrame(wire, wireEnd # "open")} :
          /\ r # Blocked
          /\ received' = Append(received,
                                [result |-> receive_message(r.input).result,
                                 consumed |-> r.consumed])
          /\ wire' = SubSeq(wire, r.consumed + 1, Len(wire))
    /\ outFrame' = None
    /\ UNCHANGED << wireEnd, requests >>
    /\ UNCHANGED serverVars
    /\ UNCHANGED << call, cli, lineConn, pipeline >>

HastaLaVista == Chars("Hasta la vista")

\* the names of the ServerError variants in responses, as Strings
ErrorCodeChars ==
    [ MessageReceiveFailed    |-> Chars("MessageReceiveFailed"),
      MessageProcessingFailed |-> Chars("MessageProcessingFailed") ]

MessageReceived == Chars("Message received: ")

\* a response to what receive_message returned: Quit to Quit, the text of
\* a Msg echoed (command.rs, line 127), an Error for a request without
\* payload and for a failure
WireResponse(result) ==
    IF result.tag = "Err"
    THEN ResponseError(<< >>, ErrorCodeChars[result.err.variant], None)
    ELSE LET message == result.val
         IN  IF message.payload = None
             THEN ResponseError(message.msg_id,
                                ErrorCodeChars.MessageProcessingFailed,
                                Some(<< 233, 34 >>))
             ELSE IF message.payload.val.type = "Quit"
             THEN ResponseQuit(message.msg_id, Some(HastaLaVista))
             ELSE IF message.payload.val.type = "Msg"
             THEN ResponseOk(message.msg_id,
                             Some(MessageReceived \o message.payload.val.text))
             ELSE ResponseOk(message.msg_id, Some(<< 92, 233 >>))

\* handle_stream, line 96: send_response writes the frame of the response
WireRespond ==
    /\ received # << >>
    /\ outFrame = None
    /\ \E bytes \in {as_bytes(response_to_string(
                         WireResponse(received[Len(received)].result)))} :
          outFrame' = Some([prefix |-> FramePrefix(Usize(Len(bytes))),
                            length |-> Usize(Len(bytes)),
                            body |-> bytes, elided |-> FALSE])
    /\ UNCHANGED << wire, wireEnd, requests, received >>
    /\ UNCHANGED serverVars
    /\ UNCHANGED << call, cli, lineConn, pipeline >>

\* lengths around 2^32
BulkLengths == { << 65535, 65535 >>, << 65536, 0 >>, << 65536, 8 >> }

\* send_response writes the frame of a response to a Msg request whose
\* serialized body has `length` bytes (the bytes themselves are left out)
WireRespondBulk(length) ==
    /\ received # << >>
    /\ outFrame = None
    /\ LET last == received[Len(received)].result
       IN  /\ last.tag = "Ok"
           /\ last.val.payload # None
           /\ last.val.payload.val.type = "Msg"
    /\ outFrame' = Some([prefix |-> FramePrefix(length), length |-> length,
                         body |-> << >>, elided |-> TRUE])
    /\ UNCHANGED << wire, wireEnd, requests, received >>
    /\ UNCHANGED serverVars
    /\ UNCHANGED << call, cli, lineConn, pipeline >>

NextCodec ==
    \/ \E entry \in WireRequests \cup RawBodies : WireSend(entry)
    \/ \E keep \in {"all", "one", "three", "length", "most"} : WireClose(keep)
    \/ WireReceive
    \/ WireRespond
    \/ \E length \in BulkLengths : WireRespondBulk(length)

\* one connection, nothing written yet
InitCodec ==
    /\ clients = [c \in {1} |-> "any"]
    /\ config = Config
    /\ InitConn
    /\ InitWire
    /\ call = None
    /\ cli = ClientStart
    /\ lineConn = LineStart
    /\ pipeline = PipelineStart

SpecCodec == InitCodec /\ [][NextCodec]_vars

(***************************************************************************)
(* Properties.                                                             *)
(***************************************************************************)
\* the all-zero identifier the homework-13 server answers with when it has no
\* request (uuid!("00000000-0000-0000-0000-000000000000"))
AllZeroId == "00000000-0000-0000-0000-000000000000"

\* C1: a worker that handles a decoded Quit request builds the Quit response
\* with the request's msg_id and the text "Hasta la vista", ends its loop
\* when send_response returns, and a worker that has ended makes no further
\* read or write and consumes nothing more of its stream.
C1_QuitEndsLoop ==
    [][\A c \in Conns :
        LET isQuit == /\ message_result[c].tag = "Ok"
                      /\ message_result[c].val.payload = Some(Quit)
        IN  /\ (pc[c] = "dispatching" /\ isQuit /\ pc'[c] # "dispatching")
                  => /\ pc'[c] = "sending"
                     /\ response_message'[c] =
                            ResponseQuit(message_result[c].val.msg_id,
                                         Some("Hasta la vista"))
            /\ (pc[c] = "sending" /\ isQuit /\ pc'[c] # "sending")
                  => pc'[c] = "terminated"
            /\ pc[c] = "terminated"
                  => /\ pc'[c] = "terminated"
                     /\ iter'[c] = iter[c]
                     /\ ioLog'[c] = ioLog[c]
                     /\ Len(inbox'[c]) >= Len(inbox[c])
                     /\ SubSeq(inbox'[c], 1, Len(inbox[c])) = inbox[c]]_vars

\* C1 witness: a Quit response was written, the worker has ended and a frame
\* is still unread on its stream
C1_Witness ==
    \E c \in Conns :
        /\ pc[c] = "terminated"
        /\ response_message[c].type = "Quit"
        /\ send_result[c].tag = "Ok"
        /\ inbox[c] # << >>

\* C2 (as claimed): after a failed receive_message the worker ends its loop
\* once the MessageReceiveFailed response has been handed to send_response.
C2_ReceiveFailureEndsLoop ==
    [][\A c \in Conns :
        (/\ pc[c] = "sending"
         /\ message_result[c].tag = "Err"
         /\ message_result[c].err.variant = "MessageReceiveFailed"
         /\ pc'[c] # "sending")
            => pc'[c] = "terminated"]_vars

\* C3 (as claimed): a worker leaves its loop on an error only when the error
\* is a BrokenPipe write failure; an iteration that met any other error
\* (receive, parse, handler or another write failure) goes back to awaiting.
C3_OnlyBrokenPipeEndsLoop ==
    [][\A c \in Conns :
        LET brokenPipe == /\ send_result'[c].tag = "Err"
                          /\ IsBrokenPipe(send_result'[c].err)
            failed == \/ response_message'[c] # None
                         /\ response_message'[c].type = "Error"
                      \/ send_result'[c].tag = "Err"
        IN  /\ (pc[c] = "dispatching" /\ pc'[c] # "dispatching")
                  => pc'[c] = "sending"
            /\ (pc[c] = "sending" /\ pc'[c] # "sending" /\ failed /\ ~brokenPipe)
                  => pc'[c] = "awaiting"]_vars

\* C4: when send_response fails on a BrokenPipe the write that failed is the
\* last write made, the worker ends its loop at once, and it makes no read
\* and no write afterwards.
C4_BrokenPipeEndsLoop ==
    [][\A c \in Conns :
        LET brokenPipe(r) == r.tag = "Err" /\ IsBrokenPipe(r.err)
            IsWrite(op) == op \in {"write_length", "write_body", "flush"}
            writes == SelectSeq(ioLog'[c], IsWrite)
        IN  /\ (pc[c] = "sending" /\ pc'[c] # "sending"
                /\ brokenPipe(send_result'[c]))
                  => /\ pc'[c] = "terminated"
                     /\ writes = IF send_result'[c].err.message
                                      = "Failed to send response length"
                                 THEN << "write_length" >>
                                 ELSE << "write_length", "write_body" >>
            /\ (pc[c] = "terminated" /\ brokenPipe(send_result[c]))
                  => /\ pc'[c] = "terminated"
                     /\ ioLog'[c] = ioLog[c]
                     /\ iter'[c] = iter[c]]_vars

\* C4 witness: a worker ended on a BrokenPipe while answering a request that
\* was not Quit, with a frame still unread on its stream
C4_Witness ==
    \E c \in Conns :
        /\ pc[c] = "terminated"
        /\ send_result[c].tag = "Err"
        /\ IsBrokenPipe(send_result[c].err)
        /\ response_message[c].type # "Quit"
        /\ inbox[c] # << >>

\* C5: the response built for a decoded request, whatever its type, carries
\* the msg_id of that request as msg_id_ref.
C5_ResponseEchoesMsgId ==
    \A c \in Conns :
        (message_result[c].tag = "Ok" /\ response_message[c] # None)
            => response_message[c].msg_id_ref = message_result[c].val.msg_id

\* C5 witness: the second request of a connection was answered with an Error
\* response that was written to the stream
C5_Witness ==
    \E c \in Conns :
        /\ iter[c] = 2
        /\ message_result[c].tag = "Ok"
        /\ response_message[c] # None
        /\ response_message[c].type = "Error"
        /\ send_result[c].tag = "Ok"

\* C6: with two workers serving Info requests, a worker that has a request
\* to read, a command to handle or a response to send can always take its
\* step, whatever the other worker does, and every response carries the
\* msg_id of a request of its own connection, never one of the other.
C6_WorkersIndependent ==
    \A c \in Conns :
        /\ (pc[c] = "awaiting" /\ iter[c] < MaxIter
            /\ (inbox[c] # << >> \/ link[c] # "open"))
              => ENABLED ReceiveMessage(c)
        /\ pc[c] = "dispatching" => ENABLED (\E fs \in FsOutcomes : Dispatch(c, fs))
        /\ pc[c] = "sending" => ENABLED Send(c, NoFailure)
        /\ (message_result[c].tag = "Ok" /\ response_message[c] # None)
              => response_message[c].msg_id_ref
                     \in {MsgId(c, n) : n \in 1..nsent[c]}
        /\ response_message[c] # None
              => response_message[c].msg_id_ref
                     \notin {MsgId(d, n) : d \in Conns \ {c}, n \in 1..MaxFrames}

\* C6 witness: both workers hold the Ok response to an Info request of their
\* own at the same time
C6_Witness ==
    \A c \in Conns :
        /\ pc[c] = "sending"
        /\ message_result[c].tag = "Ok"
        /\ response_message[c].type = "Ok"

\* C7: when handle_command returns an error the response is an Error with
\* code MessageProcessingFailed and the msg_id of the request.
C7_HandlerErrorIsProcessingFailed ==
    \A c \in Conns :
        (handler_result[c].tag = "Err" /\ response_message[c] # None)
            => /\ response_message[c].type = "Error"
               /\ response_message[c].code = "MessageProcessingFailed"
               /\ response_message[c].msg_id_ref = message_result[c].val.msg_id

\* C7 witness: the storage pipeline failed inside the Image handler and the
\* Error response was written
C7_Witness ==
    \E c \in Conns :
        /\ handler_result[c].tag = "Err"
        /\ message_result[c].val.payload # None
        /\ message_result[c].val.payload.val.type = "Image"
        /\ send_result[c].tag = "Ok"

\* C8 (as claimed): the Error response for a failure that happened before a
\* request was parsed carries the all-zero identifier; the response to a
\* parsed request carries its msg_id.
C8_SentinelIsAllZero ==
    \A c \in Conns :
        response_message[c] # None
            => response_message[c].msg_id_ref =
                   IF message_result[c].tag = "Err" THEN AllZeroId
                   ELSE message_result[c].val.msg_id

\* C9 (as claimed): the text of an Error response is the top-level message
\* of the converted ServerError and nothing else.
C9_NoCauseChainInResponse ==
    \A c \in Conns :
        (response_message[c] # None /\ response_message[c].type = "Error")
            => LET e == IF message_result[c].tag = "Err" THEN message_result[c].err
                        ELSE ProcessingFailure(handler_result[c].err)
               IN  response_message[c].text = Some(ErrorToString(e))

\* C9 (amended): the text of an Error response is the top-level message of
\* the converted ServerError followed, when the error has a cause, by ": "
\* and the rendered chain of its causes; the line written to the server log
\* is the variant name, ": " and that same text.
C9_ResponseCarriesCauseChain ==
    \A c \in Conns :
        (response_message[c] # None /\ response_message[c].type = "Error")
            => LET e == IF message_result[c].tag = "Err" THEN message_result[c].err
                        ELSE ProcessingFailure(handler_result[c].err)
                   chain == Join([i \in 1..Len(e.source) |->
                                     "Error: " \o e.source[i].display], ": ")
                   text == IF Len(e.source) = 0 THEN ErrorToString(e)
                           ELSE ErrorToString(e) \o ": " \o chain
               IN  /\ response_message[c].text = Some(text)
                   /\ errlog[c] = Some(e.variant \o ": " \o text)

\* C9 witness: an Error response whose error has a chain of two causes
C9_Witness ==
    \E c \in Conns :
        /\ response_message[c] # None
        /\ response_message[c].type = "Error"
        /\ handler_result[c].tag = "Err"
        /\ Len(handler_result[c].err) = 2
        /\ send_result[c].tag = "Ok"

\* C10 (as claimed): no worker panics, and once a File or Image request has
\* been handled the worker holds an Ok or an Error response for it.
C10_StorageNeverPanics ==
    \A c \in Conns :
        /\ pc[c] # "panicked"
        /\ (/\ pc[c] \in {"sending", "awaiting", "terminated"}
            /\ message_result[c].tag = "Ok"
            /\ message_result[c].val.payload # None
            /\ message_result[c].val.payload.val.type \in {"File", "Image"})
              => response_message[c].type \in {"Ok", "Error"}

\* C11 (as claimed): a request without payload, and a frame whose body names
\* a payload discriminant that is none of the six, are answered with an Error
\* response whose code is GeneralIssue.
C11_InvalidCommandIsGeneralIssue ==
    \A c \in Conns :
        LET noPayload == /\ message_result[c].tag = "Ok"
                         /\ message_result[c].val.payload = None
            badVariant == /\ message_result[c].tag = "Err"
                          /\ message_result[c].err.message = "Failed to parse message"
        IN  (response_message[c] # None /\ (noPayload \/ badVariant))
                => /\ response_message[c].type = "Error"
                   /\ response_message[c].code = "GeneralIssue"

\* C11 (amended): both are answered with an Error response whose code is
\* MessageProcessingFailed.  For a request without payload msg_id_ref is the
\* request's msg_id and the text is "Message processing failed: Failed to
\* process message: Error: No payload found in message"; for a body that is
\* no request msg_id_ref is empty and the text is "Message processing
\* failed: Failed to parse message: Error: " followed by the parser's message.
C11_InvalidCommandIsProcessingFailed ==
    \A c \in Conns :
        LET noPayload == /\ message_result[c].tag = "Ok"
                         /\ message_result[c].val.payload = None
            badVariant == /\ message_result[c].tag = "Err"
                          /\ message_result[c].err.message = "Failed to parse message"
        IN  /\ (response_message[c] # None /\ noPayload)
                => response_message[c] =
                       ResponseError(message_result[c].val.msg_id,
                                     "MessageProcessingFailed",
                                     Some("Message processing failed: "
                                          \o "Failed to process message: "
                                          \o "Error: No payload found in message"))
            /\ (response_message[c] # None /\ badVariant)
                => response_message[c] =
                       ResponseError("", "MessageProcessingFailed",
                                     Some("Message processing failed: "
                                          \o "Failed to parse message: Error: "
                                          \o message_result[c].err.source[1].display))

\* C11 witness: the second frame of a connection was a request without
\* payload and its Error response was written
C11_Witness ==
    \E c \in Conns :
        /\ iter[c] = 2
        /\ message_result[c].tag = "Ok"
        /\ message_result[c].val.payload = None
        /\ response_message[c] # None
        /\ send_result[c].tag = "Ok"

\* C12: a fully received frame whose body is not a valid request makes
\* receive_message return a MessageProcessingFailed error (the worker does
\* not panic); the worker builds an Error response with that code, and once
\* send_response has returned without a BrokenPipe failure it awaits the
\* next frame, which it can read from the same connection.
C12_ParseFailureIsRecoverable ==
    [][\A c \in Conns :
        LET parseFailed == /\ message_result[c].tag = "Err"
                           /\ message_result[c].err.message = "Failed to parse message"
        IN  /\ (pc[c] = "awaiting" /\ pc'[c] # "awaiting"
                /\ inbox[c] # << >> /\ Head(inbox[c]).kind = "frame"
                /\ message_result'[c].tag # "Ok")
                  => /\ pc'[c] = "dispatching"
                     /\ message_result'[c].tag = "Err"
                     /\ message_result'[c].err.variant = "MessageProcessingFailed"
                     /\ message_result'[c].err.message = "Failed to parse message"
            /\ (pc[c] = "dispatching" /\ parseFailed /\ pc'[c] # "dispatching")
                  => /\ pc'[c] = "sending"
                     /\ response_message'[c].type = "Error"
                     /\ response_message'[c].code = "MessageProcessingFailed"
            /\ (pc[c] = "sending" /\ parseFailed /\ pc'[c] # "sending"
                /\ ~(send_result'[c].tag = "Err" /\ IsBrokenPipe(send_result'[c].err)))
                  => /\ pc'[c] = "awaiting"
                     /\ (inbox'[c] # << >> /\ iter'[c] < MaxIter)
                            => (ENABLED ReceiveMessage(c))']_vars

\* C12 witness: the Error response to an unparsable frame was written and
\* the worker awaits the next frame, which is already on the stream
C12_Witness ==
    \E c \in Conns :
        /\ pc[c] = "awaiting"
        /\ message_result[c].tag = "Err"
        /\ message_result[c].err.message = "Failed to parse message"
        /\ send_result[c].tag = "Ok"
        /\ inbox[c] # << >>
        /\ Head(inbox[c]).kind = "frame"

(***************************************************************************)
(* The worker of a connection as a thread that keeps running (SpecLive).   *)
(***************************************************************************)
\* the steps of the worker of connection c
Worker(c) ==
    \/ ReceiveMessage(c)
    \/ ReceiveMessageAgain(c)
    \/ \E fs \in FsOutcomes : Dispatch(c, fs)
    \/ \E outcome \in {NoFailure} \cup WriteFailures : Send(c, outcome)

NextLive ==
    \/ Next
    \/ \E c \in Conns : ReceiveMessageAgain(c)

\* one peer; the operating system schedules every worker thread again and
\* again, and listener.incoming() hands over a peer that connected
SpecLive ==
    /\ InitConc
    /\ [][NextLive]_vars
    /\ \A c \in Conns : WF_vars(Worker(c))

\* C21: once the peer has closed or reset the connection, the worker of the
\* connection ends (its loop is left or its thread unwinds), whichever way
\* the reads and writes on the closed connection fail.
C21_ClosedConnectionEndsWorker ==
    \A c \in Conns :
        (link[c] = "closed" /\ pc[c] \in {"awaiting", "dispatching", "sending"})
            ~> (pc[c] \in {"terminated", "panicked"})

(***************************************************************************)
(* The byte stream of one connection (SpecCodec).                          *)
(***************************************************************************)
\* the stream holds fewer than 4 bytes, or fewer bytes after the first 4
\* than these announce
ShortStream ==
    \/ Len(wire) < 4
    \/ AsNat(from_be_bytes(SubSeq(wire, 1, 4))) > Len(wire) - 4

\* C13: a call of receive_message on a stream that ends before 4 length
\* bytes have arrived (no byte at all included) or before the announced
\* body has arrived returns only once the stream has ended, and returns an
\* error of the variant MessageReceiveFailed: never a message.
C13_ShortStreamIsReceiveFailed ==
    [][(Len(received') = Len(received) + 1 /\ ShortStream)
          => LET last == received'[Len(received')].result
             IN  /\ wireEnd # "open"
                 /\ last.tag = "Err"
                 /\ last.err.variant = "MessageReceiveFailed"]_vars

\* C13 witness: the peer ended the stream in the middle of a frame; one
\* call failed on the body cut short, the next on the empty stream
C13_Witness ==
    /\ wireEnd = "cut"
    /\ Len(received) >= 2
    /\ \E j \in 1..(Len(received) - 1) :
          /\ received[j].result.tag = "Err"
          /\ received[j].result.err.message = "Failed to read message"
          /\ received[j + 1].result.tag = "Err"
          /\ received[j + 1].result.err.message = "Failed to read message length"
          /\ received[j + 1].consumed = 0

\* the frames the peer wrote in full
WholeFrames == IF wireEnd = "cut" THEN Len(requests) - 1 ELSE Len(requests)

\* the body length the 4 length bytes of a frame announce
Announced(frame) == AsNat(from_be_bytes(SubSeq(frame, 1, 4)))

\* C14: the j-th call of receive_message takes exactly the j-th frame off
\* the stream, its 4 length bytes and the N body bytes they announce, and
\* returns the j-th request the client wrote; after it the stream starts
\* with the first byte of the next frame the client wrote.
C14_OneFramePerCall ==
    /\ \A j \in 1..Len(received) :
          j <= WholeFrames
            => /\ received[j].consumed = 4 + Announced(ClientFrame(requests[j]))
               /\ received[j].consumed = Len(ClientFrame(requests[j]))
               /\ requests[j] \in WireRequests
                    => received[j].result = Ok(requests[j])
    /\ Len(received) < WholeFrames
          => LET next == ClientFrame(requests[Len(received) + 1])
             IN  /\ Len(wire) >= Len(next)
                 /\ SubSeq(wire, 1, Len(next)) = next

\* C14 witness: the client wrote two different frames, one call has returned
\* the first request and the stream holds exactly the second frame
C14_Witness ==
    /\ Len(requests) = 2
    /\ requests[1] # requests[2]
    /\ Len(received) = 1
    /\ received[1].result = Ok(requests[1])
    /\ wire = ClientFrame(requests[2])

\* C15: the frame send_response writes starts with 4 bytes that are, read
\* as a big-endian unsigned number, the number of bytes of the serialized
\* body that follows them, whatever that number is.
C15_PrefixIsBodyLength ==
    outFrame # None
      => /\ from_be_bytes(outFrame.val.prefix) = outFrame.val.length
         /\ ~outFrame.val.elided
              => Len(outFrame.val.body) = AsNat(outFrame.val.length)

\* the six variants of Payload
PayloadVariants == {"Help", "Info", "Msg", "File", "Image", "Quit"}

\* the requests the client sends cover every variant of Payload and the
\* absent payload, and the body text of each parses back into it
EveryVariantParsesBack ==
    /\ PayloadVariants = { request.payload.val.type :
                              request \in { r \in WireRequests : r.payload # None } }
    /\ \E request \in WireRequests : request.payload = None
    /\ \A request \in WireRequests :
          from_slice(ParseBody(as_bytes(to_string(request)))) = Ok(request)

\* C16: a request of any of the six payload variants, or without payload,
\* that the client encoded into a frame is decoded by receive_message into
\* a request equal to it: same msg_id, same variant, same field values.
C16_RoundTrip ==
    /\ EveryVariantParsesBack
    /\ \A j \in 1..Len(received) :
          (j <= WholeFrames /\ requests[j] \in WireRequests)
            => /\ received[j].result.tag = "Ok"
               /\ received[j].result.val.msg_id = requests[j].msg_id
               /\ received[j].result.val.payload = requests[j].payload

\* C16 witness: an Info request whose text holds a quotation mark, a
\* backslash, a line feed, a non-ASCII character and a control character,
\* and a Msg request longer than 255 bytes, were both decoded
C16_Witness ==
    /\ Len(received) = 2
    /\ Len(requests) = 2
    /\ requests[1] \in WireRequests
    /\ requests[2] \in WireRequests
    /\ requests[1].payload = Some(Info(<< 34, 92, 10, 233, 1 >>, Chars("host")))
    /\ requests[2].payload = Some(Msg(LongText))
    /\ received[1].result = Ok(requests[1])
    /\ received[2].result = Ok(requests[2])

(***************************************************************************)
(* The storage directories.                                                *)
(***************************************************************************)
\* path names a file directly inside directory: directory, one separator,
\* and a file name without separator
DirectlyInside(path, directory) ==
    /\ Len(path) > Len(directory) + 1
    /\ SubSeq(path, 1, Len(directory) + 1) = directory \o "/"
    /\ \A i \in (Len(directory) + 2)..Len(path) : CharAt(path, i) # "/"

\* C17: every file store_file has written, for a File or an Image request
\* and whatever file name the client supplied, lies directly inside the
\* configured file directory or the configured image directory.
C17_WrittenInsideStorage ==
    \A f \in files :
        \/ DirectlyInside(f.path, config.file_dir)
        \/ DirectlyInside(f.path, config.image_dir)

\* text ends with suffix
EndsWith(text, suffix) ==
    /\ Len(text) >= Len(suffix)
    /\ SubSeq(text, Len(text) - Len(suffix) + 1, Len(text)) = suffix

\* C18: when the image of an Image request was converted, the path it was
\* stored under is the target path of the request (image directory,
\* timestamp, basename) with the extension of the file name replaced by
\* png, or with .png appended when the file name has none; the directory
\* part is the one of the target path.
C18_PngPathKeepsDirectory ==
    \A c \in Conns :
        (/\ message_result[c].tag = "Ok"
         /\ message_result[c].val.payload # None
         /\ message_result[c].val.payload.val.type = "Image"
         /\ handler_result[c].tag = "Ok"
         /\ SubSeq(handler_result[c].val.text.val, 1, 9) = "Received ")
          => \E t \in 0..now :
               LET target == get_target_file(
                                 message_result[c].val.payload.val.filename,
                                 config.image_dir, t).val
                   slash  == LastIndexOf(target, "/", Len(target))
                   name   == SubSeq(target, slash + 1, Len(target))
                   dot    == LastIndexOf(name, ".", Len(name))
                   stem   == IF dot = 0 THEN name ELSE SubSeq(name, 1, dot - 1)
               IN  EndsWith(handler_result[c].val.text.val,
                            " bytes in " \o SubSeq(target, 1, slash)
                                        \o stem \o ".png")

\* C19: two store operations, of one connection or of two, that wrote to
\* the same path happened in the same second and were given the same
\* basename.
C19_SamePathOnlySameSecondAndName ==
    \A a \in stored : \A b \in stored :
        a.path = b.path
          => /\ a.second = b.second
             /\ a.basename = b.basename

(***************************************************************************)
(* The iterations of the connection loop.                                  *)
(***************************************************************************)
\* C20: every iteration of the loop of a connection ends with exactly one
\* response written (the write having succeeded or failed), and the next
\* iteration begins, from the awaiting position, only after that write has
\* returned.
C20_OneResponsePerIteration ==
    [][\A c \in Conns :
          /\ (pc[c] \in {"dispatching", "sending"}
              /\ pc'[c] \notin {"dispatching", "sending"})
                => /\ send_result'[c] # None
                   /\ Cardinality({i \in 1..Len(ioLog'[c]) :
                                      ioLog'[c][i] = "write_length"}) = 1
          /\ iter'[c] # iter[c]
                => /\ pc[c] = "awaiting"
                   /\ iter[c] > 0 => send_result[c] # None]_vars

(***************************************************************************)
(* The handlers.                                                           *)
(***************************************************************************)
\* C22: the response to a Help request is Ok and its text lists the six
\* commands, each once with its description, in the order of their names;
\* the text is the same for every Help request.
C22_HelpListsCommandsSorted ==
    \A c \in Conns :
        (/\ message_result[c].tag = "Ok"
         /\ message_result[c].val.payload = Some(Help)
         /\ handler_result[c] # None)
          => /\ handler_result[c].tag = "Ok"
             /\ handler_result[c].val.type = "Ok"
             /\ handler_result[c].val.text =
                    Some("Available commands:\n"
                         \o "  File: Stores a generic file\n"
                         \o "  Help: Lists all commands\n"
                         \o "  Image: Stores an image file\n"
                         \o "  Info: Logs an info text on server side\n"
                         \o "  Msg: Sends a message\n"
                         \o "  Quit: Finalizes the communication, closes the stream")

\* C23: when an Image request carries bytes of no recognized image format,
\* the handler fails with ImageProcessingFailed "Unknown image format";
\* it fails with "Failed to decode image" only on bytes of a recognized
\* format.
C23_UnknownFormatIsReported ==
    \A c \in Conns :
        (/\ message_result[c].tag = "Ok"
         /\ message_result[c].val.payload # None
         /\ message_result[c].val.payload.val.type = "Image"
         /\ base64_decode(message_result[c].val.payload.val.content).tag = "Ok"
         /\ handler_result[c] # None
         /\ handler_result[c].tag = "Err")
          => LET buffer == base64_decode(message_result[c].val.payload.val.content).val
                 failed(text) == BoxError(ServerError("ImageProcessingFailed",
                                                      text, << >>))
             IN  /\ GuessedFormat(buffer) = None
                      => handler_result[c].err = failed("Unknown image format")
                 /\ handler_result[c].err[1] = failed("Failed to decode image")[1]
                      => GuessedFormat(buffer) # None

(***************************************************************************)
(* Functions called on their own, as the tests of the repository call      *)
(* them (server/src/test.rs, common/src/test.rs): each call starts from    *)
(* the state after construction, with empty storage directories.           *)
(***************************************************************************)
\* serde_json::Value, as far as Payload::get meets it
ValueString(value) == [kind |-> "String", value |-> value]

ValueObject(names, values) == [kind |-> "Object", names |-> names, values |-> values]

\* serde_json::to_value(payload): #[serde(tag = "type", content = "data")]
\* gives an object with the keys type and data, the fields being in data
to_value(payload) ==
    ValueObject(<< "type", "data" >>,
                << ValueString(payload.type),
                   ValueObject(PayloadFields[payload.type],
                               [i \in 1..Len(PayloadFields[payload.type]) |->
                                   ValueString(payload[PayloadFields[payload.type][i]])]) >>)

\* serde_json::Map::get
map_get(object, key) ==
    IF \E i \in 1..Len(object.names) : object.names[i] = key
    THEN Some(object.values[CHOOSE i \in 1..Len(object.names) : object.names[i] = key])
    ELSE None

\* Payload::get(&self, key) -> Option<String>
get(payload, key) ==
    Let(to_value(payload), LAMBDA json_value :
      IF json_value.kind = "Object"
      THEN Let(map_get(json_value, key), LAMBDA v :
             IF v # None /\ v.val.kind = "String" THEN Some(v.val.value) ELSE None)
      ELSE None)

\* file names the calls are made with
CallFilenames == {"a.txt", "../b.jpg", "b", "my doc.txt", ".."}

\* directories a Config names
CallDirectories == UNION {{cfg.file_dir, cfg.image_dir} : cfg \in Configs}

\* byte sequences the calls are made with: no bytes, text, bytes of every
\* residue of length modulo 3 and of extreme values, images of each format,
\* and a JPEG header without pixel data
CallBuffers ==
    { << >>, << 0 >>, << 255 >>, << 104, 105 >>, << 255, 254 >>,
      << 104, 101, 108, 108, 111 >>, << 0, 16, 131, 16, 81, 135 >>,
      << 251, 239, 190 >>, << 255, 255, 255, 255 >>,
      JpegMagic \o << 7 >>, GifMagic \o << 7, 8 >>, PngMagic \o << 7 >>,
      JpegMagic, PngMagic }

\* content strings: what base64_encode makes of the buffers, and strings
\* that are not base64 of the engine (a foreign character, a lone symbol,
\* trailing bits, padding, the standard alphabet)
CallContents ==
    {base64_encode(b) : b \in CallBuffers} \cup {"!", "a", "aGl", "aGk=", "+/8"}

\* target paths post_process_image is called with
CallTargets == {"resources/2x2.jpg", "images/x", "./images/x", "images/x.png"}

\* keys Payload::get is called with
CallKeys == {"text", "filename", "content", "info", "hostname", "type", "data", "id"}

CallPayloads ==
    { Help, Quit, Info("hello", "host"), Msg("hi"), File("a.txt", "aGk"),
      Image("b", "aGk") }

\* a call of the function named op was the last one made
Called(op) == call # None /\ call.op = op

\* store_file(filename, directory, content, post_processor)
CallStoreFile(filename, directory, content, post_processor, fs) ==
    /\ call = None
    /\ \E r \in {store_file(filename, directory, content, post_processor, now, fs)} :
          /\ call' = [op |-> "store_file", filename |-> filename,
                      directory |-> directory, content |-> content,
                      post_processor |-> post_processor, second |-> now,
                      result |-> r.result, written |-> r.written]
          /\ files' = FilesAfter(files, r.written)
          /\ stored' = StoredAfter(stored,
                                   ClientServerMessage("", Some(File(filename, content))),
                                   r.written, now)
    /\ UNCHANGED << clients, config, commandsOrder, now, pc, link, inbox, nsent,
                    iter, message_result, handler_result, response_message,
                    send_result, ioLog, errlog, outStream >>
    /\ UNCHANGED codecVars
    /\ UNCHANGED << cli, lineConn, pipeline >>

\* post_process_image(buffer, target_file)
CallPostProcessImage(buffer, target_file) ==
    /\ call = None
    /\ call' = [op |-> "post_process_image", buffer |-> buffer,
                target_file |-> target_file, again |-> FALSE,
                result |-> post_process_image(buffer, target_file)]
    /\ UNCHANGED serverVars
    /\ UNCHANGED codecVars
    /\ UNCHANGED << cli, lineConn, pipeline >>

\* post_process_image called with the bytes and the path it returned
CallPostProcessImageAgain ==
    /\ Called("post_process_image")
    /\ ~call.again
    /\ call.result.tag = "Ok"
    /\ call' = [op |-> "post_process_image", buffer |-> call.result.val[1],
                target_file |-> call.result.val[2], again |-> TRUE,
                result |-> post_process_image(call.result.val[1],
                                              call.result.val[2])]
    /\ UNCHANGED serverVars
    /\ UNCHANGED codecVars
    /\ UNCHANGED << cli, lineConn, pipeline >>

\* payload.get(key)
CallPayloadGet(payload, key) ==
    /\ call = None
    /\ call' = [op |-> "get", payload |-> payload, key |-> key,
                result |-> get(payload, key)]
    /\ UNCHANGED serverVars
    /\ UNCHANGED codecVars
    /\ UNCHANGED << cli, lineConn, pipeline >>

\* base64_decode(&base64_encode(data))
CallBase64(data) ==
    /\ call = None
    /\ \E encoded \in {base64_encode(data)} :
          call' = [op |-> "base64", data |-> data, encoded |-> encoded,
                   decoded |-> base64_decode(encoded)]
    /\ UNCHANGED serverVars
    /\ UNCHANGED codecVars
    /\ UNCHANGED << cli, lineConn, pipeline >>

\* base64_decode(content)
CallBase64Decode(content) ==
    /\ call = None
    /\ call' = [op |-> "base64_decode", content |-> content,
                decoded |-> base64_decode(content)]
    /\ UNCHANGED serverVars
    /\ UNCHANGED codecVars
    /\ UNCHANGED << cli, lineConn, pipeline >>

\* the ASCII letters: char::is_alphabetic, char::to_uppercase and
\* char::to_lowercase on them
LowerLetters == "abcdefghijklmnopqrstuvwxyz"

UpperLetters == "ABCDEFGHIJKLMNOPQRSTUVWXYZ"

\* position of ch in letters, or 0
LetterIndex(letters, ch) ==
    LET found == {i \in 1..Len(letters) : CharAt(letters, i) = ch}
    IN  IF found = {} THEN 0 ELSE CHOOSE i \in found : TRUE

is_alphabetic(ch) ==
    LetterIndex(LowerLetters, ch) > 0 \/ LetterIndex(UpperLetters, ch) > 0

\* str::to_uppercase
to_uppercase(input) ==
    Join([i \in 1..Len(input) |->
             Let(LetterIndex(LowerLetters, CharAt(input, i)), LAMBDA k :
               IF k > 0 THEN CharAt(UpperLetters, k) ELSE CharAt(input, i))], "")

\* str::to_lowercase
to_lowercase(input) ==
    Join([i \in 1..Len(input) |->
             Let(LetterIndex(UpperLetters, CharAt(input, i)), LAMBDA k :
               IF k > 0 THEN CharAt(LowerLetters, k) ELSE CharAt(input, i))], "")

\* homework-07 transformer.rs, uppercase
uppercase(input) == Ok(to_uppercase(input))

\* homework-07 transformer.rs, lowercase
lowercase(input) == Ok(to_lowercase(input))

\* homework-07 transformer.rs, alphabetic_uppercase (homework-05 main.rs has
\* the same body)
alphabetic_uppercase(input) ==
    IF \E i \in 1..Len(input) : ~is_alphabetic(CharAt(input, i))
    THEN Err("Input contains non-alphabetic characters")
    ELSE Ok(to_lowercase(input))

\* homework-07 transformer.rs, alphabetic_lowercase
alphabetic_lowercase(input) ==
    IF \E i \in 1..Len(input) : ~is_alphabetic(CharAt(input, i))
    THEN Err("Input contains non-alphabetic characters")
    ELSE Ok(to_lowercase(input))

\* homework-07 transformer.rs, transform: the transformer registered under
\* the mode is applied.  Of TRANSFORMERS the model has the four that change
\* the case of letters; the calls made use no other registered mode
transform(mode, input) ==
    CASE mode = "lower"       -> lowercase(input)
      [] mode = "alpha_lower" -> alphabetic_lowercase(input)
      [] mode = "upper"       -> uppercase(input)
      [] mode = "alpha_upper" -> alphabetic_uppercase(input)
      [] OTHER                -> Err("Invalid mode " \o mode)

\* modes and parameters the transformer is called with
TransformModes == {"lower", "alpha_lower", "upper", "alpha_upper", "nope"}

TransformInputs == {"", "abc", "ABC", "aBc", "a1", "a b"}

\* transform(mode, input)
CallTransform(mode, input) ==
    /\ call = None
    /\ call' = [op |-> "transform", mode |-> mode, input |-> input,
                result |-> transform(mode, input)]
    /\ UNCHANGED serverVars
    /\ UNCHANGED codecVars
    /\ UNCHANGED << cli, lineConn, pipeline >>

NextCall ==
    \/ Tick
    \/ \E filename \in CallFilenames, directory \in CallDirectories,
          content \in CallContents,
          post_processor \in {None, Some("post_process_image")},
          fs \in FsOutcomes :
            CallStoreFile(filename, directory, content, post_processor, fs)
    \/ \E buffer \in CallBuffers, target_file \in CallTargets :
          CallPostProcessImage(buffer, target_file)
    \/ CallPostProcessImageAgain
    \/ \E payload \in CallPayloads, key \in CallKeys : CallPayloadGet(payload, key)
    \/ \E data \in CallBuffers : CallBase64(data)
    \/ \E content \in CallContents : CallBase64Decode(content)
    \/ \E mode \in TransformModes, input \in TransformInputs :
          CallTransform(mode, input)

SpecCall == InitCodec /\ [][NextCall]_vars

\* the InvalidEncoding failure of store_file
IsInvalidEncoding(result) ==
    /\ result.tag = "Err"
    /\ result.err[1] = DynError("ServerError", "Invalid encoding: Decoding failed", "")

\* C24: store_file fails with InvalidEncoding, and writes nothing, when its
\* content is not base64 of the engine (a character outside the URL-safe
\* alphabet, padding, a lone last symbol, trailing bits); it does not fail
\* so on any string base64_encode produced.
C24_InvalidEncodingIffNotBase64 ==
    Called("store_file")
      => /\ call.content \in {"!", "a", "aGl", "aGk=", "+/8"}
              => /\ IsInvalidEncoding(call.result)
                 /\ call.written = None
                 /\ files = {}
         /\ (\E b \in CallBuffers : call.content = base64_encode(b))
              => ~IsInvalidEncoding(call.result)

\* C24 witness: store_file was given a file name without basename and a
\* content with trailing bits, and failed with InvalidEncoding
C24_Witness ==
    /\ Called("store_file")
    /\ call.filename = ".."
    /\ call.content = "aGl"
    /\ IsInvalidEncoding(call.result)

\* str::split_whitespace().last(), for text with single spaces
LastToken(text) ==
    SubSeq(text, LastIndexOf(text, " ", Len(text)) + 1, Len(text))

C26_ConvertedImageStoredAsPng ==
    (/\ Called("store_file")
     /\ call.post_processor = Some("post_process_image")
     /\ call.result.tag = "Ok"
     /\ GuessedFormat(base64_decode(call.content).val) \in {Some("Jpeg"), Some("Gif")})
      => LET buffer == base64_decode(call.content).val
             path   == call.written.val.path
             bytes  == call.written.val.bytes
             slash  == LastIndexOf(path, "/", Len(path))
             name   == SubSeq(path, slash + 1, Len(path))
             dot    == LastIndexOf(name, ".", Len(name))
         IN  /\ call.written # None
             /\ call.result.val = "Received " \o ToString(Len(buffer))
                                  \o " bytes and converted to "
                                  \o ToString(Len(bytes)) \o " bytes in " \o path
             /\ GuessedFormat(bytes) = Some("Png")
             /\ DecodeImage(bytes) = DecodeImage(buffer)
             /\ dot > 1
             /\ SubSeq(name, dot + 1, Len(name)) = "png"

\* C27: given a PNG buffer that decodes, post_process_image returns the
\* buffer and the target path as they are, with wasConverted = false; and
\* given the bytes and the path it returned for any input, it returns
\* these bytes and this path again with wasConverted = false.
C27_PngIsLeftAlone ==
    Called("post_process_image")
      => /\ (GuessedFormat(call.buffer) = Some("Png")
             /\ DecodeImage(call.buffer).tag = "Ok")
               => call.result = Ok(<< call.buffer, call.target_file, FALSE >>)
         /\ call.again
               => call.result = Ok(<< call.buffer, call.target_file, FALSE >>)

\* C27 witness: post_process_image was called on the PNG bytes and the path
\* it had returned when it converted an image
C27_Witness ==
    /\ Called("post_process_image")
    /\ call.again
    /\ call.target_file = "resources/2x2.png"
    /\ call.result.tag = "Ok"

\* C28: payload.get(key) is the value of the field named key of the
\* variant of the payload (the text of Msg, the filename of File), and is
\* None when the variant has no field of that name.
C28_GetProjectsField ==
    Called("get")
      => LET fields == PayloadFields[call.payload.type]
         IN  IF \E i \in 1..Len(fields) : fields[i] = call.key
             THEN call.result = Some(call.payload[call.key])
             ELSE call.result = None

\* C29: base64_decode(base64_encode(b)) is Ok(b); and the bytes store_file
\* writes for a File request whose content is base64_encode(b) are b.
C29_Base64RoundTrip ==
    /\ Called("base64")
          => /\ call.decoded = Ok(call.data)
             /\ \A i \in 1..Len(call.encoded) :
                   SymbolValue(CharAt(call.encoded, i)) < 64
    /\ (Called("store_file") /\ call.post_processor = None /\ call.written # None)
          => \A b \in CallBuffers :
                call.content = base64_encode(b) => call.written.val.bytes = b

\* C29 witness: four bytes 255, which encode to six symbols with trailing
\* bits, were encoded and decoded
C29_Witness ==
    /\ Called("base64")
    /\ call.data = << 255, 255, 255, 255 >>
    /\ call.encoded = "_____w"
    /\ call.decoded.tag = "Ok"


(***************************************************************************)
(* The client program (client/src/main.rs, stream_handler.rs, command.rs)  *)
(* talking to one worker of the server (SpecClient).                       *)
(*                                                                         *)
(* cli.pc is where main is: "main" at the top of its loop (main.rs, line   *)
(* 36), "reading" in handle_stream before read_line, "receiving" in front  *)
(* of receive_response, "shutting" in front of stream.shutdown, "exited"   *)
(* after main returned.  cli.stream is the TCP connection as the client's  *)
(* socket sees it: "established", "peer_closed" once the end of the        *)
(* server's side has arrived, "shut_down" after shutdown(Both) while the   *)
(* closing handshake is still under way, "closed" when it is over.         *)
(* cli.written counts the requests written to the stream, cli.answered the *)
(* responses received.                                                     *)
(* cli.result is what the last call of handle_stream returned, cli.read    *)
(* what the last read_line read, cli.ended whether standard input has      *)
(* reached its end.                                                        *)
(***************************************************************************)
\* what the user types on a line of standard input
ClientLines ==
    {"", "hello", "exit", ".quit", ".quit now", ".help", ".help me", ".info pc",
     ".file a.txt", ".file nope", ".nope"}

\* read_line at the end of standard input: Ok(0), the buffer left empty
EndOfInput == [tag |-> "EndOfInput"]

\* the files the client can open, and their bytes
ClientLocalFiles == [name \in {"a.txt"} |-> << 104, 105 >>]

\* command.rs, file: the payload for a file that can be read
client_file(input) ==
    IF input \in DOMAIN ClientLocalFiles
    THEN Ok(File(input, base64_encode(ClientLocalFiles[input])))
    ELSE Err("GeneralIssue")

\* command.rs, help: the argument has to be empty
client_help(input) ==
    IF input # "" THEN Err("InvalidParameter") ELSE Ok(Help)

\* command.rs, quit: the argument is ignored
client_quit(input) == Ok(Quit)

\* command.rs, handle_command: a line that does not start with '.' is a
\* message; otherwise the command is the text before the first space
client_handle_command(input, msg_id) ==
    LET dotted  == Len(input) > 0 /\ CharAt(input, 1) = "."
        parts   == Split(input, " ")
        command == IF dotted THEN parts[1] ELSE ".msg"
        rest    == IF dotted THEN Join(Tail(parts), " ") ELSE input
        payload ==
            CASE command = ".info"  -> Ok(Info(rest, "host"))
              [] command = ".msg"   -> Ok(Msg(rest))
              [] command = ".file"  -> client_file(rest)
              [] command = ".help"  -> client_help(rest)
              [] command = ".quit"  -> client_quit(rest)
              [] OTHER              -> Err("InvalidParameter")
    IN  IF payload.tag = "Ok"
        THEN Ok(ClientServerMessage(msg_id, Some(payload.val)))
        ELSE payload

\* main.rs, line 38: whether stream.peer_addr() fails.  getpeername answers
\* for a connected socket; for one that was shut down it depends on the
\* system and on how far the closing handshake is (Linux answers until the
\* socket has reached CLOSE, BSD systems refuse as soon as it was shut down)
PeerAddrIsErr(stream) ==
    CASE stream = "established" -> {FALSE}
      [] stream = "peer_closed" -> {FALSE}
      [] stream = "shut_down"   -> {FALSE, TRUE}
      [] stream = "closed"      -> {TRUE}

\* main.rs, lines 36-42: the top of the loop; handle_stream is called
\* unless peer_addr fails
ClientMain ==
    /\ cli.pc = "main"
    /\ \E is_err \in PeerAddrIsErr(cli.stream) :
          cli' = IF is_err
                 THEN [cli EXCEPT !.pc = "exited"]
                 ELSE [cli EXCEPT !.pc = "reading", !.sessions = @ + 1]
    /\ UNCHANGED serverVars
    /\ UNCHANGED codecVars
    /\ UNCHANGED << call, lineConn, pipeline >>

\* stream_handler.rs, lines 59-64: write_all and flush succeed on a stream
\* whose writing side is open
Writable(stream) == stream \in {"established", "peer_closed"}

\* stream_handler.rs, lines 40-65: one line is read; an empty one is skipped,
\* a failure of handle_command and a failed write return to main (which
\* goes on: main.rs, lines 42-47), a written request waits for its response
ClientReadLine(input) ==
    /\ cli.pc = "reading"
    /\ cli.lines < MaxIter
    /\ ~cli.ended
    /\ LET request == client_handle_command(input, "m" \o ToString(cli.lines))
       IN  cli' =
             IF input = ""
             THEN [cli EXCEPT !.lines = @ + 1, !.read = Some(input)]
             ELSE IF request.tag = "Err"
             THEN [cli EXCEPT !.lines = @ + 1, !.read = Some(input),
                              !.pc = "main",
                              !.result = Err("CommandError")]
             ELSE IF ~Writable(cli.stream)
             THEN [cli EXCEPT !.lines = @ + 1, !.read = Some(input),
                              !.pc = "main",
                              !.result = Err("StreamWriteError")]
             ELSE [cli EXCEPT !.lines = @ + 1, !.read = Some(input),
                              !.pc = "receiving",
                              !.written = @ + 1,
                              !.request = Some(request.val)]
    /\ UNCHANGED serverVars
    /\ UNCHANGED codecVars
    /\ UNCHANGED << call, lineConn, pipeline >>

\* stream_handler.rs, lines 41-49, at the end of standard input (Ctrl+D):
\* read_line returns Ok(0), the trimmed buffer is empty and the loop
\* continues; every later read_line finds the end again
ClientReadEndOfInput ==
    /\ cli.pc = "reading"
    /\ cli.lines < MaxIter
    /\ cli' = [cli EXCEPT !.lines = @ + 1, !.read = EndOfInput,
                          !.ended = TRUE]
    /\ UNCHANGED serverVars
    /\ UNCHANGED codecVars
    /\ UNCHANGED << call, lineConn, pipeline >>

\* stream_handler.rs, lines 42-44: read_line fails
ClientReadLineFails ==
    /\ cli.pc = "reading"
    /\ cli.lines < MaxIter
    /\ cli' = [cli EXCEPT !.lines = @ + 1, !.pc = "main",
                          !.result = Err("InputError")]
    /\ UNCHANGED serverVars
    /\ UNCHANGED codecVars
    /\ UNCHANGED << call, lineConn, pipeline >>

\* the worker of the server for this connection (server/src/
\* stream_handler.rs, lines 72-119): it handles the request and writes the
\* response; after a Quit response it leaves its loop and drops the stream,
\* and a panic of the handler drops the stream without a response
ServerRespond(fs) ==
    /\ cli.request # None
    /\ ~cli.dropped
    /\ \E h \in {handle_command(cli.request.val, config, commandsOrder, now, fs)} :
       LET message  == cli.request.val
           response ==
               IF h.result.tag = "Ok" THEN h.result.val
               ELSE to_client_message(ProcessingFailure(h.result.err),
                                      Some(message.msg_id))
       IN  /\ files' = FilesAfter(files, h.written)
           /\ stored' = StoredAfter(stored, message, h.written, now)
           /\ cli' =
                IF h.result.tag = "Panic"
                THEN [cli EXCEPT !.request = None, !.dropped = TRUE]
                ELSE [cli EXCEPT
                        !.request = None,
                        !.response = Some(response),
                        !.dropped =
                            AfterSend(Ok(NoFailure), response) = "terminated"]
    /\ UNCHANGED codecVars
    /\ UNCHANGED << call, lineConn, pipeline >>
    /\ UNCHANGED outStream
    /\ UNCHANGED << clients, config, commandsOrder, now, pc, link, inbox, nsent,
                    iter, message_result, handler_result, response_message,
                    send_result, ioLog, errlog >>

\* the server ends without answering (its process is stopped): the stream
\* of the worker is dropped and a request not yet answered is lost
ServerStops ==
    /\ ~cli.dropped
    /\ cli' = [cli EXCEPT !.request = None, !.dropped = TRUE]
    /\ UNCHANGED serverVars
    /\ UNCHANGED codecVars
    /\ UNCHANGED << call, lineConn, pipeline >>

\* the end of the server's side reaches the client's socket
PeerClosed ==
    /\ cli.dropped
    /\ cli.stream \in {"established", "shut_down"}
    /\ cli' = [cli EXCEPT !.stream = IF @ = "established" THEN "peer_closed"
                                     ELSE "closed"]
    /\ UNCHANGED serverVars
    /\ UNCHANGED codecVars
    /\ UNCHANGED << call, lineConn, pipeline >>

\* stream_handler.rs, lines 66-77: receive_response; a Quit response leaves
\* the loop, a failed read returns to main
ClientReceiveResponse ==
    /\ cli.pc = "receiving"
    /\ \/ /\ cli.response # None
          /\ cli' = [cli EXCEPT
                       !.response = None,
                       !.answered = @ + 1,
                       !.quit = @ \/ cli.response.val.type = "Quit",
                       !.pc = IF cli.response.val.type = "Quit"
                              THEN "shutting" ELSE "reading"]
       \/ /\ cli.response = None
          /\ cli.stream = "peer_closed"
          /\ cli' = [cli EXCEPT !.pc = "main",
                                !.result = Err("ResponseError")]
    /\ UNCHANGED serverVars
    /\ UNCHANGED codecVars
    /\ UNCHANGED << call, lineConn, pipeline >>

\* stream_handler.rs, line 87: what stream.shutdown(Shutdown::Both) can
\* return; on a socket whose peer has already closed, some systems refuse
\* with ENOTCONN
ShutdownOutcomes(stream) ==
    IF stream = "peer_closed" THEN {"ok", "not_connected"} ELSE {"ok"}

\* stream_handler.rs, lines 86-91 and main.rs, lines 42-47: the stream is
\* shut down and handle_stream returns Ok(()), after which main goes round
\* its loop; a failed shutdown is the StreamShutdownError that ends main
ClientShutdown(outcome) ==
    /\ cli.pc = "shutting"
    /\ outcome \in ShutdownOutcomes(cli.stream)
    /\ cli' = IF outcome = "ok"
              THEN [cli EXCEPT !.stream = "shut_down", !.pc = "main",
                               !.result = Ok("()")]
              ELSE [cli EXCEPT !.pc = "exited",
                               !.result = Err("StreamShutdownError")]
    /\ UNCHANGED serverVars
    /\ UNCHANGED codecVars
    /\ UNCHANGED << call, lineConn, pipeline >>

NextClient ==
    \/ ClientMain
    \/ \E input \in ClientLines : ClientReadLine(input)
    \/ ClientReadEndOfInput
    \/ ClientReadLineFails
    \/ \E fs \in FsOutcomes : ServerRespond(fs)
    \/ ServerStops
    \/ PeerClosed
    \/ ClientReceiveResponse
    \/ \E outcome \in {"ok", "not_connected"} : ClientShutdown(outcome)

SpecClient == InitCodec /\ [][NextClient]_vars

\* C30: once the client has received a Quit response it starts no further
\* interactive session (no further call of handle_stream) and writes no
\* further request
C30_QuitResponseEndsClient ==
    [][cli.quit => /\ cli'.sessions = cli.sessions
                   /\ cli'.written = cli.written]_vars


\* C31: once read_line has found the end of standard input, or has read the
\* line exit, handle_stream reads no further line and sends nothing for it:
\* the client is not back in front of read_line and is not waiting for a
\* response
C31_EndOfInputOrExitEndsSession ==
    (cli.read = EndOfInput \/ cli.read = Some("exit"))
        => cli.pc \notin {"reading", "receiving"}

\* C32: every Error response of the server has as its code the variant name
\* of the outermost ServerError it was made from (the error receive_message
\* returned, or the MessageProcessingFailed that wraps a failure of the
\* handler), and that code is MessageProcessingFailed or MessageReceiveFailed,
\* never the name of another variant.
C32_ErrorCodeIsOutermostVariant ==
    \A c \in Conns :
        (response_message[c] # None /\ response_message[c].type = "Error")
            => /\ response_message[c].code
                      \in {"MessageProcessingFailed", "MessageReceiveFailed"}
               /\ response_message[c].code \notin
                      {"InvalidEncoding", "ImageProcessingFailed", "GeneralIssue",
                       "ResponseSendingFailed"}
               /\ IF message_result[c].tag = "Err"
                  THEN response_message[c].code = message_result[c].err.variant
                  ELSE /\ handler_result[c].tag = "Err"
                       /\ response_message[c].code = "MessageProcessingFailed"

\* C32 witness: a File or Image request whose content is no base64 failed
\* with InvalidEncoding in store_file and its Error response was written
C32_Witness ==
    \E c \in Conns :
        /\ message_result[c].tag = "Ok"
        /\ handler_result[c].tag = "Err"
        /\ handler_result[c].err[1].display = "Invalid encoding: Decoding failed"
        /\ response_message[c] # None
        /\ response_message[c].type = "Error"
        /\ send_result[c].tag = "Ok"

\* C33: once handle_command has answered a Quit request, the worker is in
\* front of send_response or has ended, whatever send_response returned: its
\* loop never awaits another request with the Quit response built, and it
\* leaves send_response only to end.
C33_DispatchedQuitEndsWorker ==
    [][\A c \in Conns :
        LET quitBuilt(r) == r # None /\ r.type = "Quit"
        IN  /\ quitBuilt(response_message[c])
                  => pc[c] \in {"sending", "terminated"}
            /\ (pc[c] = "sending" /\ quitBuilt(response_message[c])
                /\ pc'[c] # "sending")
                  => pc'[c] = "terminated"]_vars

\* C33 witness: the Quit response could not be sent, the write failing with
\* an error other than BrokenPipe, and the worker has ended
C33_Witness ==
    \E c \in Conns :
        /\ pc[c] = "terminated"
        /\ response_message[c] # None
        /\ response_message[c].type = "Quit"
        /\ send_result[c].tag = "Err"
        /\ ~IsBrokenPipe(send_result[c].err)

\* C34: what a worker has written to its connection is at all times a
\* sequence of whole frames, followed by at most one frame left unfinished:
\* no byte is written after a frame whose body was not written completely.
C34_WrittenBytesAreFrames ==
    \A c \in Conns : outStream[c] \in {"frames", "unfinished"}

\* C35: a File or Image request whose store_file fails before anything is
\* written (the content is no base64: InvalidEncoding; the post-processor
\* rejects the bytes: ImageProcessingFailed) leaves the storage directories
\* as they were: no file is created and no file is changed.
C35_FailedStoreLeavesFiles ==
    [][\A c \in Conns :
        (/\ pc[c] = "dispatching"
         /\ pc'[c] # "dispatching"
         /\ handler_result'[c].tag = "Err"
         /\ handler_result'[c].err[1].display
                \in {"Invalid encoding: Decoding failed",
                     "Image processing failed: Failed to decode image",
                     "Image processing failed: Unknown image format"})
            => files' = files]_vars

\* C35 witness: a file was stored before, and a later Image request of the
\* connection was rejected by the post-processor
C35_Witness ==
    \E c \in Conns :
        /\ files # {}
        /\ iter[c] = 2
        /\ message_result[c].tag = "Ok"
        /\ message_result[c].val.payload # None
        /\ message_result[c].val.payload.val.type = "Image"
        /\ handler_result[c].tag = "Err"
        /\ handler_result[c].err[1].display
               = "Image processing failed: Failed to decode image"

\* C36: the client writes a request only when every request it wrote before
\* has had its response received, and a step in which a write or a receive
\* fails ends the call of handle_stream without a request being written.
C36_OneRequestOutstanding ==
    [][/\ cli'.written > cli.written => cli.answered = cli.written
       /\ (cli'.result # cli.result /\ cli'.result.tag = "Err")
             => /\ cli'.pc \in {"main", "exited"}
                /\ cli'.written = cli.written]_vars

(***************************************************************************)
(* The line-oriented server of homework 9 and 11 and its client            *)
(* (SpecLine).  A command is a line of text; `.file <size> <name>` and     *)
(* `.image <size> <name>` are followed by <size> bytes of the file.        *)
(*                                                                         *)
(* lineConn counts bytes of the command under way: written by the client,  *)
(* arrived in the server's socket, consumed from the socket by the         *)
(* server's reads; lost are the bytes after the command line that the      *)
(* BufReader of handle_stream had read when read_line returned, body the   *)
(* bytes read_exact of receive_file has obtained.  cpc is where the client *)
(* is ("prompt", "body" between the two write_all of send_file,            *)
(* "response" in receive_server_response), spc where the server is         *)
(* ("read_line", "receive_file", "respond").                               *)
(***************************************************************************)
\* sizes of the files the client sends
BodySizes == {0, 1, 3}

\* the lines the client writes: a message, and the command line of send_file
\* for a file named a of each size
LineCommands ==
    {[file |-> FALSE, text |-> "hello"]}
        \cup {[file |-> TRUE, text |-> ".file " \o ToString(n) \o " a"] :
                 n \in BodySizes}

\* bytes of a line and its newline
LineLength(command) == Len(command.text) + 1

\* store_file, lines 39-40: the size is the text before the first space of
\* the command's argument, parsed as usize
AnnouncedSize(command) ==
    LET size == Split(command.text, " ")[2]
    IN  CHOOSE n \in BodySizes : ToString(n) = size

\* client command.rs, lines 73-77 and 82-84: the line of the command is
\* written with one write_all
LineClientCommand(command) ==
    /\ lineConn.cpc = "prompt"
    /\ lineConn.commands < MaxFrames
    /\ lineConn' = [lineConn EXCEPT
                      !.commands = @ + 1,
                      !.command = Some(command),
                      !.written = LineLength(command),
                      !.arrived = 0, !.consumed = 0, !.lost = 0, !.body = 0,
                      !.cpc = IF command.file THEN "body" ELSE "response"]
    /\ UNCHANGED serverVars
    /\ UNCHANGED codecVars
    /\ UNCHANGED << call, cli, pipeline >>

\* send_file, lines 85-90: the content of the file is written with a second
\* write_all
LineClientBody ==
    /\ lineConn.cpc = "body"
    /\ lineConn' = [lineConn EXCEPT
                      !.written = @ + AnnouncedSize(lineConn.command.val),
                      !.cpc = "response"]
    /\ UNCHANGED serverVars
    /\ UNCHANGED codecVars
    /\ UNCHANGED << call, cli, pipeline >>

\* bytes written by the client reach the server's socket, in segments of
\* any size
LineDeliver ==
    /\ \E n \in 1..(lineConn.written - lineConn.arrived) :
          lineConn' = [lineConn EXCEPT !.arrived = @ + n]
    /\ UNCHANGED serverVars
    /\ UNCHANGED codecVars
    /\ UNCHANGED << call, cli, pipeline >>

\* server handle_stream, lines 16-17: read_line on a BufReader made for this
\* iteration.  Every read of the socket takes the bytes that have arrived
\* (all of them: they fit the buffer); read_line returns once the newline
\* is among them, and what the buffer holds after the newline goes with the
\* BufReader
LineServerReadLine ==
    /\ lineConn.spc = "read_line"
    /\ lineConn.command # None
    /\ lineConn.consumed < lineConn.arrived
    /\ LET command == lineConn.command.val
           taken   == lineConn.arrived
       IN  lineConn' =
             IF taken < LineLength(command)
             THEN [lineConn EXCEPT !.consumed = taken]
             ELSE [lineConn EXCEPT
                     !.consumed = taken,
                     !.lost = taken - LineLength(command),
                     !.spc = IF command.file THEN "receive_file" ELSE "respond"]
    /\ UNCHANGED serverVars
    /\ UNCHANGED codecVars
    /\ UNCHANGED << call, cli, pipeline >>

\* receive_file, lines 53-55: read_exact of <size> bytes on a new BufReader;
\* it returns when it has them and reads the socket until then
LineServerReceiveFile ==
    /\ lineConn.spc = "receive_file"
    /\ LET size      == AnnouncedSize(lineConn.command.val)
           available == lineConn.arrived - lineConn.consumed
           taken     == IF available < size - lineConn.body THEN available
                        ELSE size - lineConn.body
       IN  IF lineConn.body = size
           THEN lineConn' = [lineConn EXCEPT !.spc = "respond"]
           ELSE /\ available > 0
                /\ lineConn' = [lineConn EXCEPT !.consumed = @ + taken,
                                                !.body = @ + taken]
    /\ UNCHANGED serverVars
    /\ UNCHANGED codecVars
    /\ UNCHANGED << call, cli, pipeline >>

\* server handle_stream, lines 21-28: the response is written and the loop
\* goes back to read_line
LineServerRespond ==
    /\ lineConn.spc = "respond"
    /\ lineConn' = [lineConn EXCEPT !.spc = "read_line", !.response = TRUE]
    /\ UNCHANGED serverVars
    /\ UNCHANGED codecVars
    /\ UNCHANGED << call, cli, pipeline >>

\* client command.rs, lines 79 and 93-100: receive_server_response returns
\* the response; the client is back at its prompt
LineClientResponse ==
    /\ lineConn.cpc = "response"
    /\ lineConn.response
    /\ lineConn' = [lineConn EXCEPT !.cpc = "prompt", !.response = FALSE,
                                    !.responses = @ + 1]
    /\ UNCHANGED serverVars
    /\ UNCHANGED codecVars
    /\ UNCHANGED << call, cli, pipeline >>

NextLine ==
    \/ \E command \in LineCommands : LineClientCommand(command)
    \/ LineClientBody
    \/ LineDeliver
    \/ LineServerReadLine
    \/ LineServerReceiveFile
    \/ LineServerRespond
    \/ LineClientResponse

SpecLine == InitCodec /\ [][NextLine]_vars

\* C37: the bytes of the file are read by receive_file only: none of them
\* is taken by the reader of the command line, and the server is never
\* waiting in receive_file for bytes of a file whose bytes have all been
\* written, have all arrived and have all been read, while the client waits
\* for its response.
C37_BodyReadOnlyByReceiveFile ==
    /\ lineConn.lost = 0
    /\ ~ /\ lineConn.spc = "receive_file"
         /\ lineConn.cpc = "response"
         /\ lineConn.arrived = lineConn.written
         /\ lineConn.consumed = lineConn.arrived
         /\ lineConn.body < AnnouncedSize(lineConn.command.val)

(***************************************************************************)
(* The transformers of homework 5 and 7 called on their own (SpecCall).    *)
(***************************************************************************)
\* C39: alpha_upper answers a text of letters only with that text in
\* uppercase, and a text with a character that is no letter with an error.
C39_AlphaUpperIsUppercase ==
    (Called("transform") /\ call.mode = "alpha_upper")
        => IF \A i \in 1..Len(call.input) :
                  CharAt(call.input, i) \in
                      {CharAt(LowerLetters, k) : k \in 1..Len(LowerLetters)}
                      \cup {CharAt(UpperLetters, k) : k \in 1..Len(UpperLetters)}
           THEN call.result = Ok(to_uppercase(call.input))
           ELSE call.result.tag = "Err"

(***************************************************************************)
(* The streaming transformer of homework 7 in its interactive mode         *)
(* (SpecPipe): main, the supplier thread reading standard input and the    *)
(* transformer thread, joined by an mpsc channel of lines.                 *)
(*                                                                         *)
(* pipeline.channel holds the lines sent and not yet received,             *)
(* pipeline.receiver tells whether the Receiver still exists (it is        *)
(* dropped when transformer::run returns), pipeline.ready whether "ready"  *)
(* waits on the channel to main, pipeline.outputs what transform returned  *)
(* for the lines received.                                                 *)
(***************************************************************************)
\* the lines typed on standard input
PipeLines == {"", "exit", "exit now", "upper abc", "alpha_upper a1", "nope"}

\* transformer::run, lines 142-157: the list of transformers is printed
\* and "ready" is sent to main
TransformerReady ==
    /\ pipeline.transformer = "starting"
    /\ pipeline' = [pipeline EXCEPT !.transformer = "receiving", !.ready = TRUE]
    /\ UNCHANGED serverVars
    /\ UNCHANGED codecVars
    /\ UNCHANGED << call, cli, lineConn >>

\* main, lines 32-49: "ready" is received, the supplier thread is spawned
\* and joined
MainSpawnSupplier ==
    /\ pipeline.main = "waiting_ready"
    /\ pipeline.ready
    /\ pipeline' = [pipeline EXCEPT !.main = "joining_supplier", !.ready = FALSE,
                                    !.supplier = "reading"]
    /\ UNCHANGED serverVars
    /\ UNCHANGED codecVars
    /\ UNCHANGED << call, cli, lineConn >>

\* supplier::run, lines 9-30: one line is read; an empty one is skipped,
\* the line exit leaves the loop, any other line is sent, and a send that
\* fails (the Receiver is gone) leaves the loop
SupplierReadLine(input) ==
    /\ pipeline.supplier = "reading"
    /\ pipeline.lines < MaxIter
    /\ pipeline' =
         IF input = ""
         THEN [pipeline EXCEPT !.lines = @ + 1]
         ELSE IF input = "exit"
         THEN [pipeline EXCEPT !.lines = @ + 1, !.supplier = "finishing"]
         ELSE IF pipeline.receiver
         THEN [pipeline EXCEPT !.lines = @ + 1, !.channel = Append(@, input)]
         ELSE [pipeline EXCEPT !.lines = @ + 1, !.supplier = "finishing"]
    /\ UNCHANGED serverVars
    /\ UNCHANGED codecVars
    /\ UNCHANGED << call, cli, lineConn >>

\* supplier::run, line 12: the end of standard input leaves the loop
SupplierEndOfInput ==
    /\ pipeline.supplier = "reading"
    /\ pipeline' = [pipeline EXCEPT !.supplier = "finishing"]
    /\ UNCHANGED serverVars
    /\ UNCHANGED codecVars
    /\ UNCHANGED << call, cli, lineConn >>

\* supplier::run, lines 38-42: tx.send("exit").unwrap(); the thread panics
\* when the Receiver is gone, and returns otherwise
SupplierFinish ==
    /\ pipeline.supplier = "finishing"
    /\ pipeline' =
         IF pipeline.receiver
         THEN [pipeline EXCEPT !.supplier = "done", !.channel = Append(@, "exit")]
         ELSE [pipeline EXCEPT !.supplier = "panicked"]
    /\ UNCHANGED serverVars
    /\ UNCHANGED codecVars
    /\ UNCHANGED << call, cli, lineConn >>

\* transformer::run, lines 159-181: a line is received; when its first word
\* is exit the loop ends, run returns and the Receiver is dropped with the
\* lines still in the channel; otherwise the line is transformed.  (recv
\* never fails here: the supplier ends only after a send of exit that
\* succeeded, or after the Receiver was dropped.)
TransformerReceive ==
    /\ pipeline.transformer = "receiving"
    /\ pipeline.channel # << >>
    /\ LET input       == Head(pipeline.channel)
           parts       == Split(input, " ")
           transformer == parts[1]
           parameter   == Join(Tail(parts), " ")
       IN  pipeline' =
             IF transformer = "exit"
             THEN [pipeline EXCEPT !.transformer = "done", !.receiver = FALSE,
                                   !.channel = << >>]
             ELSE [pipeline EXCEPT
                     !.channel = Tail(@),
                     !.outputs = Append(@, transform(transformer, parameter))]
    /\ UNCHANGED serverVars
    /\ UNCHANGED codecVars
    /\ UNCHANGED << call, cli, lineConn >>

\* main, line 49: supplier_thread.unwrap().join().unwrap() returns when the
\* supplier returned and panics when the supplier panicked
MainJoinSupplier ==
    /\ pipeline.main = "joining_supplier"
    /\ pipeline.supplier \in {"done", "panicked"}
    /\ pipeline' = [pipeline EXCEPT
                      !.main = IF pipeline.supplier = "done"
                               THEN "joining_transformer" ELSE "panicked"]
    /\ UNCHANGED serverVars
    /\ UNCHANGED codecVars
    /\ UNCHANGED << call, cli, lineConn >>

\* main, line 53: the transformer thread is joined and main returns
MainJoinTransformer ==
    /\ pipeline.main = "joining_transformer"
    /\ pipeline.transformer = "done"
    /\ pipeline' = [pipeline EXCEPT !.main = "done"]
    /\ UNCHANGED serverVars
    /\ UNCHANGED codecVars
    /\ UNCHANGED << call, cli, lineConn >>

NextPipe ==
    \/ TransformerReady
    \/ MainSpawnSupplier
    \/ \E input \in PipeLines : SupplierReadLine(input)
    \/ SupplierEndOfInput
    \/ SupplierFinish
    \/ TransformerReceive
    \/ MainJoinSupplier
    \/ MainJoinTransformer

SpecPipe == InitCodec /\ [][NextPipe]_vars

\* C38: whatever lines are typed, no thread of the streaming transformer
\* panics: no send of the supplier, its last send of exit included, aborts
\* on a closed channel, and main does not panic joining the threads.
C38_NoThreadPanics ==
    /\ pipeline.supplier # "panicked"
    /\ pipeline.main # "panicked"
====
